---- MODULE Spec2Model ----
(***************************************************************************)
(* A model of ankinize: the page-dewarping engine (src/page_dewarp.py),    *)
(* retrynize (src/utils.py) and parse_events (src/pack_to_json.py).        *)
(*                                                                         *)
(* Floating-point quantities are carried in fixed point: lengths and       *)
(* edge scores in hundredths of a reduced pixel, unit tangents in          *)
(* thousandths, angles in hundredths of a degree.                          *)
(***************************************************************************)
EXTENDS Integers, Sequences, FiniteSets, TLC

(***************************************************************************)
(* Bounds of the model.                                                    *)
(***************************************************************************)
MaxContours == 3
MaxDim == 4
PixMargin == 1
MaxScale == 3
MaxSpans == 3
MaxBlobs == 2
MaxPixels == 2
MaxPoints == 2
MaxSlope == 1
XDen == 4
MaxFitSpans == 2
MaxSpanContours == 2
MaxEvals == 2
MaxEvents == 5

(***************************************************************************)
(* Tuning constants of page_dewarp.py.                                     *)
(***************************************************************************)
EDGE_MAX_OVERLAP == 1
EDGE_MAX_LENGTH == 100
EDGE_ANGLE_COST == 10
EDGE_MAX_ANGLE_100 == 750
SPAN_MIN_WIDTH == 30
SPAN_PX_PER_STEP == 20
REMAP_DECIMATE == 16
TEXT_MIN_WIDTH == 15
TEXT_MIN_HEIGHT == 2
TEXT_MIN_ASPECT_X2 == 3
TEXT_MAX_THICKNESS == 10
ADAPTIVE_C == 25
MAXW == 1280
MAXH == 700

(* retrynize of utils.py: for i in range(5) *)
RETRIES == 5

VARIABLES
  \* ---- assemble_spans ----
  cinfo_in,         \* the ContourInfo objects handed to assemble_spans
  pred,             \* ContourInfo.pred of each object (0 is None)
  succ,             \* ContourInfo.succ of each object (0 is None)
  cinfo_list,       \* the local, sorted working list (object ids)
  candidate_edges,  \* the list of (score, cinfo_a, cinfo_b) tuples
  edge_i,           \* candidate edges consumed by the linking loop
  accepted,         \* history: the edges whose if-body ran
  cinfo,            \* the loop variable of the span walk (0 is None)
  cur_span,
  width,
  spans,
  apc,              \* position inside assemble_spans
  run,              \* which call of assemble_spans is executing
  first_result,     \* what the first call returned (or raised)
  \* ---- pix2norm / norm2pix ----
  px_shape,         \* (height, width) of the image
  px_pts,           \* the pixel point handed to pix2norm
  px_as_integer,    \* the as_integer argument of norm2pix
  px_norm,          \* what pix2norm returned
  px_back,          \* what norm2pix returned for it
  ppc,
  \* ---- page_dewarp ----
  img_in,           \* shape of the array the caller passed
  img,              \* shape of the local img: (h, w), (h, w, c) or (n,)
  small,            \* shape of the screen-sized copy
  n_text,           \* len(spans) after the text pass (-1: not yet)
  n_line,           \* len(spans2) after the line pass (-1: not run)
  n_spans,          \* len(spans) of the chosen set (-1: not yet)
  opt_res,          \* the OptimizeResult of the minimize call in optimize_params
  dw_params,        \* what optimize_params returned
  dims_res,         \* the OptimizeResult of the minimize call in get_page_dims
  page_dims,        \* what get_page_dims returned, in quarters
  stages_run,       \* the pipeline stages entered so far
  out_image,        \* what page_dewarp returned: its kind and shape
  derr,             \* the exception page_dewarp ended with
  dpc,
  \* ---- get_contours ----
  masktype,
  contours,         \* what cv2.findContours returned: bounding box and thickness
  contour_i,        \* contours the filter loop has looked at
  contours_out,     \* indices of the contours a ContourInfo was built for
  gpc,
  \* ---- remap_image, the compositing ----
  remapped_color,   \* the remapped colour pixels (RGB triples)
  local_mean,       \* the window mean the adaptive threshold sees per pixel
  thresh,
  red_mask,
  final_image,
  rpc,
  \* ---- get_default_params / project_xy ----
  corners,          \* the four page corners keypoints_from_samples returned
  ycoords,          \* one y offset per span
  xcoords,          \* per span, the x offsets of its sample points
  pnp,              \* what cv2.solvePnP returned: rvec and tvec
  rough_dims,
  span_counts,
  params,           \* the parameter vector
  xy_coords,        \* the page point handed to project_xy
  objpoints,        \* the 3-D point project_xy builds for it
  parc,
  \* ---- two invocations of page_dewarp ----
  module_values,    \* the module-level names of page_dewarp.py and their values
  calls,            \* the locals of each invocation
  last_call,        \* the invocation that made the last step (0: none yet)
  switches,         \* how often the stepping invocation has changed so far
  \* ---- sample_spans to get_page_dims: the fitting ----
  fit_spans,        \* the spans handed to sample_spans: per span its contours
  span_points,      \* what sample_spans returned: per span its sample points
  dstpoints,        \* corners[0] and all sample points, stacked
  keypoint_index,   \* what make_keypoint_index returned
  pvec_passed,      \* what the last objective evaluation was handed
  pvec_after,       \* what that array holds after the evaluation
  res_x,            \* res.x of the minimize call in optimize_params
  evals,            \* objective evaluations of the running minimize call
  fpc,
  \* ---- retrynize: one call of the wrapper ----
  rt_async,         \* whether func is a coroutine function
  rt_outcomes,      \* how the successive invocations of func end
  rt_i,             \* the loop variable i
  rt_invocations,   \* invocations of func made so far
  rt_printed,       \* the attempt numbers printed
  rt_result,        \* how the wrapper ended
  rtpc,
  \* ---- parse_events ----
  events,           \* the event list handed to parse_events
  parsed,           \* what parse_events returned, or the error it raised
  pepc

asmVars == <<cinfo_in, pred, succ, cinfo_list, candidate_edges, edge_i,
             accepted, cinfo, cur_span, width, spans, apc, run, first_result>>

pixVars == <<px_shape, px_pts, px_as_integer, px_norm, px_back, ppc>>

dwVars == <<img_in, img, small, n_text, n_line, n_spans, opt_res, dw_params,
            dims_res, page_dims, stages_run, out_image, derr, dpc>>

gcVars == <<masktype, contours, contour_i, contours_out, gpc>>

rmVars == <<remapped_color, local_mean, thresh, red_mask, final_image, rpc>>

parVars == <<corners, ycoords, xcoords, pnp, rough_dims, span_counts, params,
             xy_coords, objpoints, parc>>

twoVars == <<module_values, calls, last_call, switches>>

fitVars == <<fit_spans, span_points, dstpoints, keypoint_index, pvec_passed,
             pvec_after, res_x, evals, fpc>>

rtVars == <<rt_async, rt_outcomes, rt_i, rt_invocations, rt_printed,
             rt_result, rtpc>>

peVars == <<events, parsed, pepc>>

vars ==
  <<asmVars, pixVars, dwVars, gcVars, rmVars, parVars, twoVars, fitVars,
    rtVars, peVars>>

otherThanAsm ==
  <<pixVars, dwVars, gcVars, rmVars, parVars, twoVars, fitVars, rtVars,
    peVars>>

otherThanPix ==
  <<asmVars, dwVars, gcVars, rmVars, parVars, twoVars, fitVars, rtVars,
    peVars>>

otherThanDw ==
  <<asmVars, pixVars, gcVars, rmVars, parVars, twoVars, fitVars, rtVars,
    peVars>>

otherThanGc ==
  <<asmVars, pixVars, dwVars, rmVars, parVars, twoVars, fitVars, rtVars,
    peVars>>

otherThanRm ==
  <<asmVars, pixVars, dwVars, gcVars, parVars, twoVars, fitVars, rtVars,
    peVars>>

otherThanPar ==
  <<asmVars, pixVars, dwVars, gcVars, rmVars, twoVars, fitVars, rtVars,
    peVars>>

otherThanTwo ==
  <<asmVars, pixVars, dwVars, gcVars, rmVars, parVars, fitVars, rtVars,
    peVars>>

otherThanFit ==
  <<asmVars, pixVars, dwVars, gcVars, rmVars, parVars, twoVars, rtVars,
    peVars>>

otherThanRt ==
  <<asmVars, pixVars, dwVars, gcVars, rmVars, parVars, twoVars, fitVars,
    peVars>>

otherThanPe ==
  <<asmVars, pixVars, dwVars, gcVars, rmVars, parVars,
    twoVars, fitVars, rtVars>>

(***************************************************************************)
(* The parts of the program a specification does not exercise rest here.   *)
(***************************************************************************)
AsmIdle ==
  /\ cinfo_in = <<>> /\ pred = <<>> /\ succ = <<>> /\ cinfo_list = <<>>
  /\ candidate_edges = <<>> /\ edge_i = 0 /\ accepted = {} /\ cinfo = 0
  /\ cur_span = <<>> /\ width = 0 /\ spans = <<>> /\ apc = "idle" /\ run = 0
  /\ first_result = [outcome |-> "none", spans |-> <<>>]

PixIdle ==
  /\ px_shape = <<1, 1>> /\ px_pts = <<0, 0>> /\ px_as_integer = FALSE
  /\ px_norm = <<0, 0>> /\ px_back = <<0, 0>> /\ ppc = "idle"

DwIdle ==
  /\ img_in = <<>> /\ img = <<>> /\ small = <<>>
  /\ n_text = -1 /\ n_line = -1 /\ n_spans = -1 /\ page_dims = <<0, 0>>
  /\ stages_run = {} /\ out_image = [kind |-> "none", shape |-> <<>>]
  /\ derr = "none" /\ dpc = "idle"
  /\ opt_res = [x |-> <<>>, status |-> -1, success |-> FALSE]
  /\ dims_res = [x |-> <<>>, status |-> -1, success |-> FALSE]
  /\ dw_params = <<>>

GcIdle ==
  /\ masktype = "text" /\ contours = <<>> /\ contour_i = 0
  /\ contours_out = <<>> /\ gpc = "idle"

RmIdle ==
  /\ remapped_color = <<>> /\ local_mean = <<>> /\ thresh = <<>>
  /\ red_mask = <<>> /\ final_image = <<>> /\ rpc = "idle"

ParIdle ==
  /\ corners = <<>> /\ ycoords = <<>> /\ xcoords = <<>>
  /\ pnp = [rvec |-> <<>>, tvec |-> <<>>]
  /\ rough_dims = <<0, 0>> /\ span_counts = <<>> /\ params = <<>>
  /\ xy_coords = <<0, 0>> /\ objpoints = <<0, 0, 0>> /\ parc = "idle"

TwoIdle ==
  /\ module_values = <<>> /\ calls = <<>> /\ last_call = 0 /\ switches = 0

FitIdle ==
  /\ fit_spans = <<>> /\ span_points = <<>> /\ dstpoints = <<>>
  /\ keypoint_index = <<>> /\ pvec_passed = <<>> /\ pvec_after = <<>>
  /\ res_x = <<>>
  /\ evals = 0 /\ fpc = "idle"

RtIdle ==
  /\ rt_async = FALSE /\ rt_outcomes = <<>> /\ rt_i = 0 /\ rt_invocations = 0
  /\ rt_printed = <<>> /\ rt_result = [kind |-> "none"] /\ rtpc = "idle"

PeIdle ==
  /\ events = <<>> /\ parsed = [err |-> "none", res |-> <<>>] /\ pepc = "idle"

(***************************************************************************)
(* Arithmetic helpers.                                                     *)
(***************************************************************************)
Abs(x) == IF x < 0 THEN -x ELSE x

Min(a, b) == IF a <= b THEN a ELSE b

Max(a, b) == IF a >= b THEN a ELSE b

RECURSIVE ISqrtFrom(_, _, _)
ISqrtFrom(n, lo, hi) ==
  \* floor(sqrt(n)) by bisection, lo*lo <= n < hi*hi
  IF hi - lo <= 1 THEN lo
  ELSE LET mid == (lo + hi) \div 2
       IN IF mid * mid <= n THEN ISqrtFrom(n, mid, hi)
                            ELSE ISqrtFrom(n, lo, mid)

ISqrt(n) == ISqrtFrom(n, 0, 46340)

RoundDiv(a, b) == (2 * a + b) \div (2 * b)

PosScale == 10 * 10

TanScale == 10 * 10 * 10

AtanArgMax == 2 * (10 ^ 4)

(* np.arctan of n0/d0, 0 <= n0, 0 < d0, in hundredths of a degree.  Both   *)
(* arguments are first brought below AtanArgMax by a common divisor.  Up   *)
(* to n/d = 1/5 (11.3 degrees) by the series x - x^3/3 + x^5/5 in units of *)
(* 1e-5 rad; above it, where every use is far beyond EDGE_MAX_ANGLE, by    *)
(* the chord from 11.31 to 45 degrees.                                     *)
AtanDeg100(n0, d0) ==
  LET k == 1 + (Max(n0, d0) \div AtanArgMax)
      n == n0 \div k
      d == d0 \div k
  IN IF 5 * n <= d
     THEN LET x1 == (100000 * n) \div d
              sq == (x1 * x1) \div 100000
              c3 == (sq * x1) \div 100000
              c5 == (((c3 * x1) \div 100000) * x1) \div 100000
              rad == x1 - (c3 \div 3) + (c5 \div 5)
          IN (rad * 18000) \div 314159
     ELSE IF n <= d
     THEN 1131 + ((3369 * (5 * n - d)) \div (4 * d))
     ELSE 9000 - (IF 5 * d <= n
                  THEN LET x1 == (100000 * d) \div n
                           sq == (x1 * x1) \div 100000
                           c3 == (sq * x1) \div 100000
                           rad == x1 - (c3 \div 3)
                       IN (rad * 18000) \div 314159
                  ELSE 1131 + ((3369 * (5 * d - n)) \div (4 * n)))

(***************************************************************************)
(* ContourInfo and its geometry.                                           *)
(***************************************************************************)
Dot(u, v) == u[1] * v[1] + u[2] * v[2]

Cross(u, v) == u[1] * v[2] - u[2] * v[1]

(* ContourInfo.__init__: the fields of the object built for a contour      *)
(* whose centroid, unit tangent and projection range along the tangent     *)
(* (what blob_mean_and_tangent and the projections of its points give)     *)
(* are as stated, and whose bounding rectangle has the given top.          *)
ContourInfo(center, tangent, lxmin, lxmax, rect_y) ==
  [center |-> center,
   tangent |-> tangent,
   local_xrng |-> <<lxmin, lxmax>>,
   point0 |-> <<center[1] + RoundDiv(tangent[1] * lxmin, TanScale),
                center[2] + RoundDiv(tangent[2] * lxmin, TanScale)>>,
   point1 |-> <<center[1] + RoundDiv(tangent[1] * lxmax, TanScale),
                center[2] + RoundDiv(tangent[2] * lxmax, TanScale)>>,
   rect_y |-> rect_y]

proj_x(self, point) ==
  RoundDiv(Dot(self.tangent,
               <<point[1] - self.center[1], point[2] - self.center[2]>>),
           TanScale)

interval_measure_overlap(int_a, int_b) ==
  Min(int_a[2], int_b[2]) - Max(int_a[1], int_b[1])

local_overlap(self, other) ==
  interval_measure_overlap(self.local_xrng,
                           <<proj_x(self, other.point0), proj_x(self, other.point1)>>)

(* angle_dist(self.angle, overall_angle) in hundredths of a degree, where  *)
(* self.angle = arctan2 of the tangent and overall_angle = arctan2 of the  *)
(* centre difference d; arctan2(0, 0) is 0.                                *)
angle_dist(tangent, d) ==
  LET dir == IF d = <<0, 0>> THEN <<1, 0>> ELSE d
      dt == Dot(tangent, dir)
      cr == Abs(Cross(tangent, dir))
  IN IF dt > 0 THEN AtanDeg100(cr, dt)
     ELSE IF dt = 0 THEN 9000
     ELSE 18000 - AtanDeg100(cr, -dt)

NoEdge == [score |-> -1, a |-> 0, b |-> 0]

(* generate_candidate_edge without the test of delta_angle. *)
mut_generate_candidate_edge_no_angle(C, i, j) ==
  LET swap == C[i].point0[1] > C[j].point1[1]
      a == IF swap THEN j ELSE i
      b == IF swap THEN i ELSE j
      x_overlap == Max(local_overlap(C[a], C[b]), local_overlap(C[b], C[a]))
      overall_tangent == <<C[b].center[1] - C[a].center[1],
                           C[b].center[2] - C[a].center[2]>>
      delta_angle == Max(angle_dist(C[a].tangent, overall_tangent),
                         angle_dist(C[b].tangent, overall_tangent))
      dv == <<C[b].point0[1] - C[a].point1[1], C[b].point0[2] - C[a].point1[2]>>
      reach == EDGE_MAX_LENGTH * PosScale
  IN IF Abs(dv[1]) > reach \/ Abs(dv[2]) > reach
     THEN NoEdge
     ELSE IF Dot(dv, dv) > reach * reach
             \/ x_overlap > EDGE_MAX_OVERLAP * PosScale
     THEN NoEdge
     ELSE [score |-> ISqrt(Dot(dv, dv)) + delta_angle * EDGE_ANGLE_COST,
           a |-> a, b |-> b]

(* generate_candidate_edge(cinfo_i, cinfo_j) for the objects i and j of C. *)
(* The distance is compared with EDGE_MAX_LENGTH by components first, so   *)
(* that the square is only taken of a vector that can pass.                *)
generate_candidate_edge(C, i, j) ==
  LET swap == C[i].point0[1] > C[j].point1[1]
      a == IF swap THEN j ELSE i
      b == IF swap THEN i ELSE j
      x_overlap == Max(local_overlap(C[a], C[b]), local_overlap(C[b], C[a]))
      overall_tangent == <<C[b].center[1] - C[a].center[1],
                           C[b].center[2] - C[a].center[2]>>
      delta_angle == Max(angle_dist(C[a].tangent, overall_tangent),
                         angle_dist(C[b].tangent, overall_tangent))
      dv == <<C[b].point0[1] - C[a].point1[1], C[b].point0[2] - C[a].point1[2]>>
      reach == EDGE_MAX_LENGTH * PosScale
      dist2 == Dot(dv, dv)
  IN IF Abs(dv[1]) > reach \/ Abs(dv[2]) > reach
     THEN NoEdge
     ELSE IF dist2 > reach * reach
             \/ x_overlap > EDGE_MAX_OVERLAP * PosScale
             \/ delta_angle > EDGE_MAX_ANGLE_100
     THEN NoEdge
     ELSE [score |-> ISqrt(dist2) + delta_angle * EDGE_ANGLE_COST,
           a |-> a, b |-> b]

(***************************************************************************)
(* The sorts of assemble_spans.                                            *)
(***************************************************************************)
(* The indices of keys in ascending order of key, equal keys in index     *)
(* order (the sorts of Python are stable): an index stands at the place   *)
(* given by the number of indices that go before it.                      *)
StableSort(keys) ==
  LET n == Len(keys)
      Before(j, i) == keys[j] < keys[i] \/ (keys[j] = keys[i] /\ j < i)
      Place(i) == 1 + Cardinality({j \in 1..n : Before(j, i)})
  IN [k \in 1..n |-> CHOOSE i \in 1..n : Place(i) = k]

(* sorted(cinfo_list, key=lambda c: c.rect[1]) *)
SortedByRectY(C) == StableSort([i \in 1..Len(C) |-> C[i].rect_y])

(* The double loop over i and j < i, in the order it appends.  A range of  *)
(* iterations is split in two halves and their edges are concatenated.     *)
RECURSIVE EdgesOfRow(_, _, _, _, _)
EdgesOfRow(C, list, i, lo, hi) ==
  \* the edges the inner loop appends for cinfo_i and j in lo..hi
  IF lo > hi THEN <<>>
  ELSE IF lo = hi
  THEN LET edge == generate_candidate_edge(C, list[i], list[lo])
       IN IF edge = NoEdge THEN <<>> ELSE <<edge>>
  ELSE LET mid == (lo + hi) \div 2
       IN EdgesOfRow(C, list, i, lo, mid) \o EdgesOfRow(C, list, i, mid + 1, hi)

RECURSIVE EdgesOfRows(_, _, _, _)
EdgesOfRows(C, list, lo, hi) ==
  \* the edges the outer iterations lo..hi append
  IF lo > hi THEN <<>>
  ELSE IF lo = hi THEN EdgesOfRow(C, list, lo, 1, lo - 1)
  ELSE LET mid == (lo + hi) \div 2
       IN EdgesOfRows(C, list, lo, mid) \o EdgesOfRows(C, list, mid + 1, hi)

AllCandidateEdges(C, list) == EdgesOfRows(C, list, 1, Len(list))

ScoreTie(edges) ==
  \E i, j \in 1..Len(edges) : i < j /\ edges[i].score = edges[j].score

(* candidate_edges.sort(): the lists it can leave.  The tuples compare by  *)
(* score first; two tuples of equal score go on to compare ContourInfo     *)
(* objects, which define no ordering, and the sort raises TypeError.       *)
mut_EdgeSortOutcomes_any_tie_order(edges) ==
  LET n == Len(edges)
      order == StableSort([k \in 1..n |-> edges[k].score])
      perms == {p \in [1..n -> 1..n] : \A i, j \in 1..n : i # j => p[i] # p[j]}
  IN IF ~ScoreTie(edges) THEN {[k \in 1..n |-> edges[order[k]]]}
     ELSE {[k \in 1..n |-> edges[p[k]]] :
             p \in {q \in perms : \A k \in 1..(n - 1) :
                                     edges[q[k]].score <= edges[q[k + 1]].score}}

(* candidate_edges.sort() leaving the largest score first. *)
mut_EdgeSortOutcomes_descending(edges) ==
  LET n == Len(edges)
      order == StableSort([k \in 1..n |-> 0 - edges[k].score])
  IN IF ScoreTie(edges) THEN {}
     ELSE {[k \in 1..n |-> edges[order[k]]]}

EdgeSortOutcomes(edges) ==
  LET order == StableSort([k \in 1..Len(edges) |-> edges[k].score])
  IN IF ScoreTie(edges) THEN {}
     ELSE {[k \in 1..Len(edges) |-> edges[order[k]]]}

(***************************************************************************)
(* The contours handed to assemble_spans.  The tangent of a ContourInfo is *)
(* the first left singular vector cv2.SVDecomp returns for the covariance  *)
(* of the blob: (cos, sin) of an angle from -45 degrees up to, but not     *)
(* including, 135 degrees.                                                 *)
(***************************************************************************)
ContourUniverse ==
  { ContourInfo(<<1000, 1000>>, <<1000, 0>>, -1000, 1000, 900),
    ContourInfo(<<4000, 1000>>, <<1000, 0>>, -2000, 2000, 900),
    ContourInfo(<<8000, 1000>>, <<1000, 0>>, -2000, 2000, 900),
    ContourInfo(<<6000, 1500>>, <<1000, 0>>, -1500, 1500, 1400),
    ContourInfo(<<12000, 1500>>, <<1000, 0>>, -800, 800, 1400),
    ContourInfo(<<23000, 1000>>, <<1000, 0>>, -800, 800, 900),
    ContourInfo(<<8000, 1000>>, <<707, 707>>, -800, 800, 400),
    ContourInfo(<<6500, 1000>>, <<707, -707>>, -800, 800, 400),
    ContourInfo(<<100, 1000>>, <<0, 1000>>, -800, 800, 200),
    ContourInfo(<<500, 5000>>, <<0, 1000>>, -800, 800, 4200) }

(* A list of thin straight strokes, each the ContourInfo of a parallelogram *)
(* with whole-pixel corners two pixels thick, laid out head to tail around  *)
(* a closed loop: a run of strokes at -44.3 degrees climbing to the right,  *)
(* a turn through the horizontal and the vertical in steps of at most 13.2  *)
(* degrees, a run of strokes at 134.3 degrees descending to the left, and   *)
(* the same turn back.                                                      *)
RingOfStrokes ==
  << ContourInfo(<<20300, 394600>>, <<716, -698>>, -5798, 5798, 390500),
     ContourInfo(<<33000, 378900>>, <<716, -698>>, -5798, 5798, 374800),
     ContourInfo(<<45600, 363900>>, <<716, -698>>, -5798, 5798, 359800),
     ContourInfo(<<58900, 348600>>, <<716, -698>>, -5798, 5798, 344500),
     ContourInfo(<<71900, 332600>>, <<716, -698>>, -5798, 5798, 328500),
     ContourInfo(<<84900, 317300>>, <<716, -698>>, -5798, 5798, 313200),
     ContourInfo(<<97100, 302100>>, <<716, -698>>, -5798, 5798, 298000),
     ContourInfo(<<110300, 286500>>, <<716, -698>>, -5798, 5798, 282400),
     ContourInfo(<<123400, 270400>>, <<716, -698>>, -5798, 5798, 266300),
     ContourInfo(<<136300, 255300>>, <<716, -698>>, -5798, 5798, 251200),
     ContourInfo(<<148900, 240200>>, <<716, -698>>, -5798, 5798, 236100),
     ContourInfo(<<161500, 224700>>, <<716, -698>>, -5798, 5798, 220600),
     ContourInfo(<<174700, 208800>>, <<716, -698>>, -5798, 5798, 204700),
     ContourInfo(<<187800, 193000>>, <<716, -698>>, -5798, 5798, 188900),
     ContourInfo(<<200300, 177300>>, <<716, -698>>, -5798, 5798, 173200),
     ContourInfo(<<213700, 161600>>, <<716, -698>>, -5798, 5798, 157500),
     ContourInfo(<<226200, 146100>>, <<716, -698>>, -5798, 5798, 142000),
     ContourInfo(<<238800, 130300>>, <<716, -698>>, -5798, 5798, 126200),
     ContourInfo(<<251200, 115100>>, <<716, -698>>, -5798, 5798, 111000),
     ContourInfo(<<264200, 99700>>, <<716, -698>>, -5798, 5798, 95600),
     ContourInfo(<<277000, 83600>>, <<716, -698>>, -5798, 5798, 79500),
     ContourInfo(<<289900, 68400>>, <<716, -698>>, -5798, 5798, 64300),
     ContourInfo(<<302500, 53100>>, <<716, -698>>, -5798, 5798, 49000),
     ContourInfo(<<315000, 37500>>, <<716, -698>>, -5798, 5798, 33400),
     ContourInfo(<<327800, 21500>>, <<716, -698>>, -5798, 5798, 17400),
     ContourInfo(<<339400, 6900>>, <<716, -698>>, -5798, 5798, 2800),
     ContourInfo(<<344200, 2700>>, <<788, -615>>, -561, 561, 2300),
     ContourInfo(<<345150, 2050>>, <<866, -500>>, -565, 565, 1700),
     ContourInfo(<<346250, 1550>>, <<944, -329>>, -507, 507, 1300),
     ContourInfo(<<347500, 1200>>, <<979, -204>>, -530, 530, 1000),
     ContourInfo(<<348600, 1100>>, <<1000, 0>>, -500, 500, 1000),
     ContourInfo(<<349800, 1200>>, <<979, 204>>, -530, 530, 1000),
     ContourInfo(<<351050, 1600>>, <<907, 420>>, -534, 534, 1300),
     ContourInfo(<<352150, 2150>>, <<866, 500>>, -565, 565, 1800),
     ContourInfo(<<353400, 3050>>, <<741, 672>>, -599, 599, 2600),
     ContourInfo(<<354300, 4000>>, <<615, 788>>, -561, 561, 3600),
     ContourInfo(<<355150, 5250>>, <<500, 866>>, -565, 565, 4800),
     ContourInfo(<<355750, 6550>>, <<329, 944>>, -507, 507, 6100),
     ContourInfo(<<356200, 8100>>, <<204, 979>>, -530, 530, 7600),
     ContourInfo(<<356400, 10000>>, <<0, 1000>>, -800, 800, 9200),
     ContourInfo(<<356400, 11600>>, <<-126, 992>>, -819, 819, 10800),
     ContourInfo(<<356250, 13200>>, <<-187, 982>>, -833, 833, 12400),
     ContourInfo(<<356000, 14750>>, <<-262, 965>>, -802, 802, 14000),
     ContourInfo(<<355500, 16250>>, <<-376, 926>>, -845, 845, 15500),
     ContourInfo(<<354850, 17800>>, <<-453, 891>>, -828, 828, 17100),
     ContourInfo(<<354100, 19300>>, <<-502, 865>>, -856, 856, 18600),
     ContourInfo(<<353250, 20750>>, <<-575, 818>>, -848, 848, 20100),
     ContourInfo(<<350800, 23650>>, <<-699, 715>>, -2934, 2934, 21600),
     ContourInfo(<<264800, 111900>>, <<-698, 716>>, -120358, 120358, 25800),
     ContourInfo(<<94800, 286250>>, <<-698, 716>>, -123222, 123222, 198100),
     ContourInfo(<<6800, 376650>>, <<-699, 715>>, -2934, 2934, 374600),
     ContourInfo(<<4350, 379650>>, <<-575, 818>>, -848, 848, 379000),
     ContourInfo(<<3500, 381200>>, <<-502, 865>>, -856, 856, 380500),
     ContourInfo(<<2750, 382800>>, <<-453, 891>>, -828, 828, 382100),
     ContourInfo(<<2100, 384450>>, <<-376, 926>>, -845, 845, 383700),
     ContourInfo(<<1600, 386150>>, <<-262, 965>>, -802, 802, 385400),
     ContourInfo(<<1350, 387800>>, <<-187, 982>>, -833, 833, 387000),
     ContourInfo(<<1200, 389600>>, <<-126, 992>>, -819, 819, 388800),
     ContourInfo(<<1200, 391400>>, <<0, 1000>>, -800, 800, 390600),
     ContourInfo(<<1400, 393100>>, <<204, 979>>, -530, 530, 392600),
     ContourInfo(<<1750, 394450>>, <<329, 944>>, -507, 507, 394000),
     ContourInfo(<<2450, 395950>>, <<500, 866>>, -565, 565, 395500),
     ContourInfo(<<3500, 397500>>, <<615, 788>>, -561, 561, 397100),
     ContourInfo(<<4600, 398650>>, <<741, 672>>, -599, 599, 398200),
     ContourInfo(<<5950, 399650>>, <<866, 500>>, -565, 565, 399300),
     ContourInfo(<<7250, 400300>>, <<907, 420>>, -534, 534, 400000),
     ContourInfo(<<8800, 400800>>, <<979, 204>>, -530, 530, 400600),
     ContourInfo(<<10400, 401000>>, <<1000, 0>>, -500, 500, 400900),
     ContourInfo(<<11400, 400900>>, <<979, -204>>, -530, 530, 400700),
     ContourInfo(<<12350, 400650>>, <<944, -329>>, -507, 507, 400400),
     ContourInfo(<<13750, 400050>>, <<866, -500>>, -565, 565, 399700),
     ContourInfo(<<15200, 399100>>, <<788, -615>>, -561, 561, 398700) >>

ContourLists ==
  UNION {[1..n -> ContourUniverse] : n \in 0..MaxContours} \cup {RingOfStrokes}

Ids == 1..Len(cinfo_in)

NoLinks == [i \in Ids |-> 0]

(***************************************************************************)
(* assemble_spans, one step per statement or loop iteration.               *)
(***************************************************************************)
AsmInit ==
  /\ cinfo_in \in ContourLists
  /\ pred = [i \in 1..Len(cinfo_in) |-> 0]
  /\ succ = [i \in 1..Len(cinfo_in) |-> 0]
  /\ cinfo_list = <<>>
  /\ candidate_edges = <<>>
  /\ edge_i = 0
  /\ accepted = {}
  /\ cinfo = 0
  /\ cur_span = <<>>
  /\ width = 0
  /\ spans = <<>>
  /\ apc = "sort_contours"
  /\ run = 1
  /\ first_result = [outcome |-> "none", spans |-> <<>>]

(* cinfo_list = sorted(cinfo_list, key=lambda c: c.rect[1]) *)
AsmSortContours ==
  /\ UNCHANGED otherThanAsm
  /\ apc = "sort_contours"
  /\ cinfo_list' = SortedByRectY(cinfo_in)
  /\ apc' = "generate_edges"
  /\ UNCHANGED <<cinfo_in, pred, succ, candidate_edges, edge_i, accepted,
                 cinfo, cur_span, width, spans, run, first_result>>

(* the loops that fill candidate_edges *)
AsmGenerateEdges ==
  /\ UNCHANGED otherThanAsm
  /\ apc = "generate_edges"
  /\ candidate_edges' = AllCandidateEdges(cinfo_in, cinfo_list)
  /\ apc' = "sort_edges"
  /\ UNCHANGED <<cinfo_in, pred, succ, cinfo_list, edge_i, accepted,
                 cinfo, cur_span, width, spans, run, first_result>>

(* candidate_edges.sort() *)
AsmSortEdges ==
  /\ UNCHANGED otherThanAsm
  /\ apc = "sort_edges"
  /\ IF EdgeSortOutcomes(candidate_edges) = {}
     THEN /\ apc' = "TypeError"
          /\ UNCHANGED candidate_edges
     ELSE /\ candidate_edges' \in EdgeSortOutcomes(candidate_edges)
          /\ apc' = "link"
  /\ UNCHANGED <<cinfo_in, pred, succ, cinfo_list, edge_i, accepted,
                 cinfo, cur_span, width, spans, run, first_result>>

(* a linking loop that takes every edge *)
mut_LinkAllowed_always(a, b) == TRUE

(* the test of the linking loop: if cinfo_a.succ is None and cinfo_b.pred is None *)
mut_LinkAllowed_ignore_pred(a, b) == succ[a] = 0

LinkAllowed(a, b) == succ[a] = 0 /\ pred[b] = 0

(* an iteration of the linking loop that sets cinfo_a.succ and leaves      *)
(* cinfo_b.pred as it is                                                   *)
mut_AsmLinkEdge_succ_only ==
  /\ UNCHANGED otherThanAsm
  /\ apc = "link"
  /\ edge_i < Len(candidate_edges)
  /\ LET e == candidate_edges[edge_i + 1]
     IN IF LinkAllowed(e.a, e.b)
        THEN /\ succ' = [succ EXCEPT ![e.a] = e.b]
             /\ accepted' = accepted \cup {<<e.a, e.b>>}
        ELSE UNCHANGED <<succ, accepted>>
  /\ edge_i' = edge_i + 1
  /\ UNCHANGED <<cinfo_in, pred, cinfo_list, candidate_edges, cinfo, cur_span,
                 width, spans, apc, run, first_result>>

(* one iteration of: for _, cinfo_a, cinfo_b in candidate_edges *)
AsmLinkEdge ==
  /\ UNCHANGED otherThanAsm
  /\ apc = "link"
  /\ edge_i < Len(candidate_edges)
  /\ LET e == candidate_edges[edge_i + 1]
     IN IF LinkAllowed(e.a, e.b)
        THEN /\ succ' = [succ EXCEPT ![e.a] = e.b]
             /\ pred' = [pred EXCEPT ![e.b] = e.a]
             /\ accepted' = accepted \cup {<<e.a, e.b>>}
        ELSE UNCHANGED <<succ, pred, accepted>>
  /\ edge_i' = edge_i + 1
  /\ UNCHANGED <<cinfo_in, cinfo_list, candidate_edges, cinfo, cur_span,
                 width, spans, apc, run, first_result>>

(* the linking loop is exhausted: spans = [] *)
AsmLinkDone ==
  /\ UNCHANGED otherThanAsm
  /\ apc = "link"
  /\ edge_i = Len(candidate_edges)
  /\ spans' = <<>>
  /\ apc' = "outer"
  /\ UNCHANGED <<cinfo_in, pred, succ, cinfo_list, candidate_edges, edge_i,
                 accepted, cinfo, cur_span, width, run, first_result>>

(* while cinfo_list: cinfo = cinfo_list[0] *)
AsmOuter ==
  /\ UNCHANGED otherThanAsm
  /\ apc = "outer"
  /\ cinfo_list # <<>>
  /\ cinfo' = cinfo_list[1]
  /\ apc' = "back"
  /\ UNCHANGED <<cinfo_in, pred, succ, cinfo_list, candidate_edges, edge_i,
                 accepted, cur_span, width, spans, run, first_result>>

(* The walk of the span loop that starts where it stands, without going    *)
(* back along pred.                                                        *)
mut_AsmBack_no_walk ==
  /\ UNCHANGED otherThanAsm
  /\ apc = "back"
  /\ cur_span' = <<>>
  /\ width' = 0
  /\ apc' = "forward"
  /\ UNCHANGED <<cinfo_in, pred, succ, cinfo_list, candidate_edges, edge_i,
                 accepted, cinfo, spans, run, first_result>>

(* while cinfo.pred: cinfo = cinfo.pred; then cur_span = [], width = 0.0 *)
AsmBack ==
  /\ UNCHANGED otherThanAsm
  /\ apc = "back"
  /\ IF pred[cinfo] # 0
     THEN /\ cinfo' = pred[cinfo]
          /\ UNCHANGED <<cur_span, width, apc>>
     ELSE /\ cur_span' = <<>>
          /\ width' = 0
          /\ apc' = "forward"
          /\ UNCHANGED cinfo
  /\ UNCHANGED <<cinfo_in, pred, succ, cinfo_list, candidate_edges, edge_i,
                 accepted, spans, run, first_result>>

RemoveFirst(list, x) ==
  \* list.remove(x): the list without its first element equal to x
  LET k == CHOOSE i \in 1..Len(list) :
                list[i] = x /\ \A j \in 1..(i - 1) : list[j] # x
  IN SubSeq(list, 1, k - 1) \o SubSeq(list, k + 1, Len(list))

InList(list, x) == \E i \in 1..Len(list) : list[i] = x

SpanKept(w) == w > SPAN_MIN_WIDTH * PosScale

(* one iteration of: while cinfo: remove, append, add the width, follow    *)
(* succ; and after the loop: if width > SPAN_MIN_WIDTH: spans.append       *)
AsmForward ==
  /\ UNCHANGED otherThanAsm
  /\ apc = "forward"
  /\ IF cinfo # 0
     THEN IF InList(cinfo_list, cinfo)
          THEN /\ cinfo_list' = RemoveFirst(cinfo_list, cinfo)
               /\ cur_span' = Append(cur_span, cinfo)
               /\ width' = width + (cinfo_in[cinfo].local_xrng[2]
                                    - cinfo_in[cinfo].local_xrng[1])
               /\ cinfo' = succ[cinfo]
               /\ UNCHANGED <<spans, apc>>
          ELSE /\ apc' = "ValueError"
               /\ UNCHANGED <<cinfo_list, cur_span, width, cinfo, spans>>
     ELSE /\ spans' = IF SpanKept(width) THEN Append(spans, cur_span) ELSE spans
          /\ apc' = "outer"
          /\ UNCHANGED <<cinfo_list, cur_span, width, cinfo>>
  /\ UNCHANGED <<cinfo_in, pred, succ, candidate_edges, edge_i, accepted,
                 run, first_result>>

(* the outer loop ends: return spans *)
AsmReturn ==
  /\ UNCHANGED otherThanAsm
  /\ apc = "outer"
  /\ cinfo_list = <<>>
  /\ apc' = "returned"
  /\ UNCHANGED <<cinfo_in, pred, succ, cinfo_list, candidate_edges, edge_i,
                 accepted, cinfo, cur_span, width, spans, run, first_result>>

AsmEnded == apc \in {"returned", "TypeError", "ValueError"}

(* A second call of assemble_spans on the same list, in the same order,    *)
(* the links of its ContourInfo objects unset as __init__ leaves them.     *)
AsmCallAgain ==
  /\ UNCHANGED otherThanAsm
  /\ AsmEnded
  /\ run = 1
  /\ first_result' = [outcome |-> apc, spans |-> spans]
  /\ run' = 2
  /\ pred' = NoLinks
  /\ succ' = NoLinks
  /\ cinfo_list' = <<>>
  /\ candidate_edges' = <<>>
  /\ edge_i' = 0
  /\ accepted' = {}
  /\ cinfo' = 0
  /\ cur_span' = <<>>
  /\ width' = 0
  /\ spans' = <<>>
  /\ apc' = "sort_contours"
  /\ UNCHANGED cinfo_in

AsmNext ==
  \/ AsmSortContours
  \/ AsmGenerateEdges
  \/ AsmSortEdges
  \/ AsmLinkEdge
  \/ AsmLinkDone
  \/ AsmOuter
  \/ AsmBack
  \/ AsmForward
  \/ AsmReturn
  \/ AsmCallAgain

InitSpans ==
  AsmInit /\ PixIdle /\ DwIdle /\ GcIdle /\ RmIdle /\ ParIdle /\ TwoIdle /\ FitIdle
  /\ RtIdle /\ PeIdle

SpecSpans == InitSpans /\ [][AsmNext]_vars

(***************************************************************************)
(* Properties of span assembly.                                            *)
(***************************************************************************)
RECURSIVE Follow(_, _, _)
Follow(link, c, k) ==
  \* the object reached from c by k steps along link (0 once the chain ends)
  IF k = 0 \/ c = 0 THEN c
  ELSE IF k = 1 THEN link[c]
  ELSE Follow(link, Follow(link, c, k \div 2), k - (k \div 2))

LinkingOver == apc \in {"outer", "back", "forward", "returned", "ValueError"}

(* C1: the pred/succ links never contain a cycle, while the candidate     *)
(* edges are consumed and after the linking phase: following succ, or      *)
(* following pred, from any contour comes to None within as many steps as  *)
(* there are contours, so it never comes back to a contour already passed. *)
C1_NoLinkCycle ==
  \A c \in Ids :
    /\ Follow(succ, c, Len(cinfo_in)) = 0
    /\ Follow(pred, c, Len(cinfo_in)) = 0

(* The links of a list of at most MaxContours contours of the universe     *)
(* never contain a cycle: an accepted edge runs within EDGE_MAX_ANGLE of   *)
(* the tangents of both its ends, so two edges that meet in a contour      *)
(* differ in direction by at most twice that, and so few edges cannot      *)
(* close.                                                                  *)
AsmShortListsAcyclic ==
  Len(cinfo_in) <= MaxContours =>
    \A c \in Ids :
      /\ Follow(succ, c, Len(cinfo_in)) = 0
      /\ Follow(pred, c, Len(cinfo_in)) = 0

(* C2: the accepted edges never share a source and never share a target,   *)
(* and the links are exactly the accepted edges: every contour has at most *)
(* one successor and at most one predecessor, so the chains are disjoint.  *)
C2_AtMostOneLinkEach ==
  /\ \A e1, e2 \in accepted :
       e1 # e2 => e1[1] # e2[1] /\ e1[2] # e2[2]
  /\ \A a, b \in Ids :
       /\ (succ[a] = b) <=> (<<a, b>> \in accepted)
       /\ (pred[b] = a) <=> (<<a, b>> \in accepted)

(* C2 witness: the linking loop has consumed every candidate edge,         *)
(* accepting some and refusing another.                                    *)
C2_Witness ==
  /\ apc = "link"
  /\ edge_i = Len(candidate_edges)
  /\ accepted # {}
  /\ Cardinality(accepted) < Len(candidate_edges)

EdgeAccepted(e) == <<e.a, e.b>> \in accepted

Consumed == IF apc \in {"sort_contours", "generate_edges", "sort_edges", "TypeError"}
            THEN 0 ELSE edge_i

(* What holds of the candidate edges from the sort on: they stand in       *)
(* ascending order of score, and every edge the linking loop has passed    *)
(* and not accepted has its source or its target already taken by an       *)
(* accepted edge that stands before it and costs no more.                  *)
GreedyState ==
  /\ Consumed <= Len(candidate_edges)
  /\ apc \notin {"sort_contours", "generate_edges", "sort_edges", "TypeError"} =>
       \A k \in 1..(Len(candidate_edges) - 1) :
         candidate_edges[k].score <= candidate_edges[k + 1].score
  /\ \A k \in 1..Consumed :
       ~EdgeAccepted(candidate_edges[k]) =>
         \E j \in 1..(k - 1) :
           /\ EdgeAccepted(candidate_edges[j])
           /\ candidate_edges[j].score <= candidate_edges[k].score
           /\ \/ candidate_edges[j].a = candidate_edges[k].a
              \/ candidate_edges[j].b = candidate_edges[k].b

(* One turn of the linking loop: the next edge in list order is taken, and *)
(* it is accepted exactly when its source has no successor and its target  *)
(* no predecessor at that moment.                                          *)
GreedyStep ==
  (apc = "link" /\ edge_i' # edge_i) =>
    /\ edge_i' = edge_i + 1
    /\ candidate_edges' = candidate_edges
    /\ LET e == candidate_edges[edge_i + 1]
       IN /\ ~EdgeAccepted(e)
          /\ (<<e.a, e.b>> \in accepted') <=> (succ[e.a] = 0 /\ pred[e.b] = 0)
          /\ accepted' \subseteq accepted \cup {<<e.a, e.b>>}

(* C16: the candidate edges are consumed in ascending cost order, first    *)
(* come first served: an edge is accepted if and only if, at its turn, its *)
(* source has no successor and its target no predecessor; so every edge    *)
(* not accepted shares its source or its target with an accepted edge of   *)
(* no greater cost.                                                        *)
C16_GreedyAscending == []GreedyState /\ [][GreedyStep]_vars

(* C16 witness: the linking loop is over, and an edge was refused because  *)
(* a strictly cheaper edge had taken its source or its target.             *)
C16_Witness ==
  /\ apc = "outer"
  /\ \E k \in 1..Len(candidate_edges) :
       /\ ~EdgeAccepted(candidate_edges[k])
       /\ \E j \in 1..(k - 1) :
            /\ EdgeAccepted(candidate_edges[j])
            /\ candidate_edges[j].score < candidate_edges[k].score

(* C17: the candidate edge of a pair of contours does not depend on the    *)
(* order of the arguments: generate_candidate_edge(a, b) and               *)
(* generate_candidate_edge(b, a) are the same edge (source, target and     *)
(* cost) or both None.                                                     *)
C17_OrderIndependent ==
  \A i, j \in Ids :
    i # j => generate_candidate_edge(cinfo_in, i, j)
               = generate_candidate_edge(cinfo_in, j, i)

(* What does hold of the two argument orders: they agree whenever exactly  *)
(* one of the two calls exchanges its arguments, that is, whenever one     *)
(* contour starts to the right of where the other ends.                    *)
GceAgreesWhenApart ==
  \A i, j \in Ids :
    (i # j /\ ((cinfo_in[i].point0[1] > cinfo_in[j].point1[1])
                 # (cinfo_in[j].point0[1] > cinfo_in[i].point1[1]))) =>
      generate_candidate_edge(cinfo_in, i, j)
        = generate_candidate_edge(cinfo_in, j, i)

(* The three quantities of a pair (l, r), l being the contour              *)
(* generate_candidate_edge takes as the left one.                          *)
PairOverlap(l, r) == Max(local_overlap(l, r), local_overlap(r, l))

PairGap(l, r) == <<r.point0[1] - l.point1[1], r.point0[2] - l.point1[2]>>

PairDeviation(l, r) ==
  LET line == <<r.center[1] - l.center[1], r.center[2] - l.center[2]>>
  IN Max(angle_dist(l.tangent, line), angle_dist(r.tangent, line))

Longer(v, len) ==
  \* the vector v is longer than len
  Abs(v[1]) > len \/ Abs(v[2]) > len \/ Dot(v, v) > len * len

Heads == {c \in Ids : pred[c] = 0}

ChainOf(h) ==
  LET n == Cardinality({k \in Ids : Follow(succ, h, k - 1) # 0})
  IN [k \in 1..n |-> Follow(succ, h, k - 1)]

RECURSIVE WidthOf(_, _, _)
WidthOf(chain, lo, hi) ==
  \* the sum of local_xrng[1] - local_xrng[0] over chain[lo..hi]
  IF lo > hi THEN 0
  ELSE IF lo = hi
  THEN cinfo_in[chain[lo]].local_xrng[2] - cinfo_in[chain[lo]].local_xrng[1]
  ELSE WidthOf(chain, lo, (lo + hi) \div 2)
         + WidthOf(chain, ((lo + hi) \div 2) + 1, hi)

ChainWidth(chain) == WidthOf(chain, 1, Len(chain))

Returned(chain) == \E k \in 1..Len(spans) : spans[k] = chain

(* C19: a chain is discarded if and only if its total width is below       *)
(* SPAN_MIN_WIDTH; every chain at least SPAN_MIN_WIDTH wide is returned as *)
(* a span.                                                                 *)
C19_DiscardIffBelow ==
  apc = "returned" =>
    \A h \in Heads :
      Returned(ChainOf(h)) <=> ChainWidth(ChainOf(h)) >= SPAN_MIN_WIDTH * PosScale

(* What does hold of the chains when assemble_spans returns: a chain is    *)
(* returned if and only if it is wider than SPAN_MIN_WIDTH.                *)
AsmReturnsWiderChains ==
  apc = "returned" =>
    \A h \in Heads :
      Returned(ChainOf(h)) <=> ChainWidth(ChainOf(h)) > SPAN_MIN_WIDTH * PosScale

(* C20: every span is a complete chain from head to tail: its first        *)
(* contour has no predecessor, its last no successor, each contour after   *)
(* the first is the succ of the one before it; and no contour occurs twice *)
(* in a span or in two spans.                                              *)
C20_SpansAreChains ==
  /\ \A k \in 1..Len(spans) :
       LET s == spans[k]
       IN /\ s # <<>>
          /\ pred[s[1]] = 0
          /\ succ[s[Len(s)]] = 0
          /\ \A m \in 2..Len(s) : s[m] = succ[s[m - 1]]
          /\ \A m, n \in 1..Len(s) : m # n => s[m] # s[n]
  /\ \A k, l \in 1..Len(spans) :
       k # l => \A m \in 1..Len(spans[k]), n \in 1..Len(spans[l]) :
                  spans[k][m] # spans[l][n]

(* C20 witness: assemble_spans has returned two spans, one of them a chain *)
(* of several contours whose head was not the first of its contours in the *)
(* sorted list.                                                            *)
C20_Witness ==
  /\ apc = "returned"
  /\ Len(spans) >= 2
  /\ \E k \in 1..Len(spans) :
       /\ Len(spans[k]) >= 2
       /\ \E m \in 2..Len(spans[k]) :
            \E p, q \in 1..Len(SortedByRectY(cinfo_in)) :
              /\ SortedByRectY(cinfo_in)[p] = spans[k][m]
              /\ SortedByRectY(cinfo_in)[q] = spans[k][1]
              /\ p < q

(* C21: within one run of assemble_spans a link that is set is never set   *)
(* again and never cleared, so pred and succ of a contour are each         *)
(* assigned at most once; and no other attribute of a ContourInfo changes. *)
C21_LinksSetOnce ==
  [][/\ cinfo_in' = cinfo_in
     /\ run' = run =>
          \A c \in Ids :
            /\ succ[c] # 0 => succ'[c] = succ[c]
            /\ pred[c] # 0 => pred'[c] = pred[c]]_vars

(* C21 witness: a run has returned in which the linking loop turned down   *)
(* an edge into a contour that had its predecessor, which it still has.    *)
C21_Witness ==
  /\ apc = "returned"
  /\ \E k \in 1..Len(candidate_edges) :
       LET e == candidate_edges[k]
       IN /\ ~EdgeAccepted(e)
          /\ pred[e.b] # 0
          /\ pred[e.b] # e.a

(* The fair runs of assemble_spans: a statement that can execute does. *)
SpecSpansLive == InitSpans /\ [][AsmNext]_vars /\ WF_vars(AsmNext)

(* C26: assemble_spans ends and returns normally for every list of         *)
(* contours: the sort of the candidate edges completes, no contour is      *)
(* removed twice (cinfo_list.remove never fails), and the walk along pred  *)
(* and the walk along succ each come to None within n steps from where     *)
(* they stand, n the number of contours.                                   *)
C26_ReturnsNormally ==
  /\ apc \notin {"TypeError", "ValueError"}
  /\ apc = "back" => Follow(pred, cinfo, Len(cinfo_in)) = 0
  /\ apc = "forward" /\ cinfo # 0 => Follow(succ, cinfo, Len(cinfo_in)) = 0

(* What does hold of the ends of assemble_spans: cinfo_list.remove never   *)
(* fails, and a list whose candidate edges all differ in score and whose   *)
(* links do not close to a cycle is returned from.                         *)
AsmEndsUnlessTieOrCycle ==
  /\ [](apc # "ValueError")
  /\ [](apc = "TypeError" => ScoreTie(candidate_edges))
  /\ (apc = "link" /\ edge_i = Len(candidate_edges)
        /\ \A c \in Ids : Follow(pred, c, Len(cinfo_in)) = 0)
       ~> (apc = "returned")

(* C27: during and after the linking loop the links mirror each other: for *)
(* all contours a and b, a.succ is b if and only if b.pred is a.           *)
C27_LinksMutual ==
  \A a, b \in Ids : (succ[a] = b) <=> (pred[b] = a)

(* C27 witness: the linking loop has ended with a chain of three contours. *)
C27_Witness ==
  /\ apc = "outer"
  /\ \E a, b, c \in Ids :
       /\ succ[a] = b /\ succ[b] = c
       /\ pred[c] = b /\ pred[b] = a

(***************************************************************************)
(* pix2norm and norm2pix.  A float is carried as an integer count of       *)
(* 1/FxOne: every product is rounded to the nearest such count, which      *)
(* bounds from above the rounding the floating-point operations do.        *)
(***************************************************************************)
FxOne == 2 ^ 8

FxMul(a, b) == RoundDiv(a * b, FxOne)

(* ndarray.astype(int) of a float: the fraction is dropped, towards zero.  *)
AsTypeInt(x) == IF x >= 0 THEN x \div FxOne ELSE -((-x) \div FxOne)

pix2norm(shape, pts) ==
  LET hgt == shape[1]
      wid == shape[2]
      scl == RoundDiv(2 * FxOne * FxOne, Max(hgt, wid) * FxOne)
      offset == <<(wid * FxOne) \div 2, (hgt * FxOne) \div 2>>
  IN <<FxMul(pts[1] - offset[1], scl), FxMul(pts[2] - offset[2], scl)>>

norm2pix(shape, pts, as_integer) ==
  LET hgt == shape[1]
      wid == shape[2]
      scl == (Max(hgt, wid) * FxOne) \div 2
      offset == <<(wid * FxOne) \div 2, (hgt * FxOne) \div 2>>
      rval == <<FxMul(pts[1], scl) + offset[1], FxMul(pts[2], scl) + offset[2]>>
  IN IF as_integer
     THEN <<AsTypeInt(rval[1] + FxOne \div 2) * FxOne,
            AsTypeInt(rval[2] + FxOne \div 2) * FxOne>>
     ELSE rval

(* Pixel coordinates in steps of half a pixel, from PixMargin pixels       *)
(* before the image to PixMargin pixels past its largest extent.           *)
PixCoords == {(k * FxOne) \div 2 : k \in (-2 * PixMargin)..(2 * (MaxDim + PixMargin))}

PixInit ==
  /\ px_shape \in (1..MaxDim) \X (1..MaxDim)
  /\ px_pts \in PixCoords \X PixCoords
  /\ px_as_integer \in BOOLEAN
  /\ px_norm = <<0, 0>>
  /\ px_back = <<0, 0>>
  /\ ppc = "pix2norm"

PixToNorm ==
  /\ UNCHANGED otherThanPix
  /\ ppc = "pix2norm"
  /\ px_norm' = pix2norm(px_shape, px_pts)
  /\ ppc' = "norm2pix"
  /\ UNCHANGED <<px_shape, px_pts, px_as_integer, px_back>>

NormToPix ==
  /\ UNCHANGED otherThanPix
  /\ ppc = "norm2pix"
  /\ px_back' = norm2pix(px_shape, px_norm, px_as_integer)
  /\ ppc' = "done"
  /\ UNCHANGED <<px_shape, px_pts, px_as_integer, px_norm>>

PixNext == PixToNorm \/ NormToPix

InitPix ==
  PixInit /\ AsmIdle /\ DwIdle /\ GcIdle /\ RmIdle /\ ParIdle /\ TwoIdle /\ FitIdle
  /\ RtIdle /\ PeIdle

SpecPix == InitPix /\ [][PixNext]_vars

WholePixel(pts) == pts[1] % FxOne = 0 /\ pts[2] % FxOne = 0

PixTolerance == FxOne \div 16

(* C4: the round trip norm2pix(shape, pix2norm(shape, p)) gives p back:    *)
(* exactly for a whole pixel p with as_integer=True, and within the        *)
(* rounding tolerance with as_integer=False -- for every shape and every   *)
(* point of pixel space.                                                   *)
C4_RoundTrip ==
  ppc = "done" =>
    IF px_as_integer
    THEN WholePixel(px_pts) => px_back = px_pts
    ELSE /\ Abs(px_back[1] - px_pts[1]) <= PixTolerance
         /\ Abs(px_back[2] - px_pts[2]) <= PixTolerance

(* What does hold of the round trip: it is within tolerance as floats, and *)
(* exact as integers for every whole pixel with no negative coordinate.    *)
PixRoundTripNonNegative ==
  ppc = "done" =>
    IF px_as_integer
    THEN (WholePixel(px_pts) /\ px_pts[1] >= 0 /\ px_pts[2] >= 0)
           => px_back = px_pts
    ELSE /\ Abs(px_back[1] - px_pts[1]) <= PixTolerance
         /\ Abs(px_back[2] - px_pts[2]) <= PixTolerance

(***************************************************************************)
(* page_dewarp: the stages in order, on the shapes of the arrays.          *)
(***************************************************************************)
CeilDiv(a, b) == (a + b - 1) \div b

(* cvRound of a / b: to the nearest integer, a tie to the even one.        *)
CvRoundDiv(a, b) ==
  LET q == a \div b
      r == a % b
  IN IF 2 * r < b THEN q
     ELSE IF 2 * r > b THEN q + 1
     ELSE IF q % 2 = 0 THEN q ELSE q + 1

(* The shape resize_to_screen returns.  cv2.resize keeps the channels of   *)
(* its source, and returns a 2-D array for a single channel.               *)
resize_to_screen(src) ==
  LET hgt == src[1]
      wid == src[2]
      scl == Max(CeilDiv(wid, MAXW), CeilDiv(hgt, MAXH))
      rows == CvRoundDiv(hgt, scl)
      cols == CvRoundDiv(wid, scl)
  IN IF scl > 1
     THEN IF Len(src) = 3 /\ src[3] > 1
          THEN <<rows, cols, src[3]>>
          ELSE <<rows, cols>>
     ELSE src

(* rounding down to a multiple instead of up *)
mut_round_nearest_multiple_down(i, factor) == i - (i % factor)

round_nearest_multiple(i, factor) ==
  LET rem == i % factor
  IN IF rem = 0 THEN i ELSE i + factor - rem

(* page_dims is carried in units of 1/DimsScale.                           *)
DimsScale == 2 * 2

PageDimsUniverse == {3, 5} \X {3, 5}

(* Shape of the array remap_image returns (OUTPUT_ZOOM is 1.0).            *)
remap_image_shape(image, dims) ==
  LET hgt == round_nearest_multiple((dims[2] * image[1]) \div (2 * DimsScale),
                                    REMAP_DECIMATE)
      wid == round_nearest_multiple((hgt * dims[1]) \div dims[2], REMAP_DECIMATE)
  IN <<hgt, wid, 3>>

(* int(x) of python for a quotient n / d with d > 0: truncation to zero.   *)
IntOfQuotient(n, d) == IF n >= 0 THEN n \div d ELSE -((-n) \div d)

(* (height_small, width_small) of remap_image for an output of the shape   *)
(* full: int(height / REMAP_DECIMATE), int(width / REMAP_DECIMATE).        *)
remap_small_shape(full) ==
  <<IntOfQuotient(full[1], REMAP_DECIMATE), IntOfQuotient(full[2], REMAP_DECIMATE)>>

Heights ==
  {MAXH \div 2} \cup UNION {{k * MAXH, k * MAXH + 1} : k \in 1..(MaxScale - 1)}

Widths ==
  {MAXW \div 2} \cup UNION {{k * MAXW, k * MAXW + 1} : k \in 1..(MaxScale - 1)}

ChannelCounts == {1, 2, 3, 4}

(* Arrays a caller can pass: 1-D, 2-D, and 3-D with any channel count.     *)
InputShapes ==
  {<<n>> : n \in Heights}
    \cup (Heights \X Widths)
    \cup (Heights \X Widths \X ChannelCounts)

LaterStages ==
  {"sample_spans", "keypoints_from_samples", "get_default_params",
   "optimize_params", "get_page_dims", "remap_image"}

(* No minimize call has been made yet. *)
NoResult == [x |-> <<>>, status |-> -1, success |-> FALSE]

(* The status of the OptimizeResult of method='Powell': 0 converged, 1 the *)
(* budget of function evaluations exhausted, 2 the budget of iterations    *)
(* exhausted, 3 a NaN met.                                                 *)
PowellStatuses == 0..3

(* What scipy.optimize.minimize can return for a start in xs: a vector of  *)
(* the shape of the start, with any status.                                *)
OptimizeResults(xs) ==
  {[x |-> v, status |-> st, success |-> (st = 0)] : v \in xs, st \in PowellStatuses}

(* Parameter vectors, told apart by a label in place of their entries. *)
ParamVectors == {<<"x_a">>, <<"x_b">>}

(* taking the result only from a minimizer that reports success *)
mut_ResX_only_on_success(res) == IF res.success THEN res.x ELSE <<>>

(* params = res.x (line 714) and dims = res.x (line 736) *)
ResX(res) == res.x

DwInit ==
  /\ img_in \in InputShapes
  /\ img = img_in
  /\ small = <<>>
  /\ n_text = -1
  /\ n_line = -1
  /\ n_spans = -1
  /\ opt_res = NoResult
  /\ dw_params = <<>>
  /\ dims_res = NoResult
  /\ page_dims = <<0, 0>>
  /\ stages_run = {}
  /\ out_image = [kind |-> "none", shape |-> <<>>]
  /\ derr = "none"
  /\ dpc = "normalize"

(* Lines 831-836: a 2-D array is made RGB, a 4-channel one loses alpha;    *)
(* a 1-D array has no shape[2]; everything else goes on as it came.        *)
DwNormalize ==
  /\ UNCHANGED otherThanDw
  /\ dpc = "normalize"
  /\ IF Len(img) = 2
     THEN img' = <<img[1], img[2], 3>> /\ dpc' = "resize" /\ derr' = derr
     ELSE IF Len(img) < 3
     THEN img' = img /\ dpc' = "raised" /\ derr' = "IndexError"
     ELSE IF img[3] = 4
     THEN img' = <<img[1], img[2], 3>> /\ dpc' = "resize" /\ derr' = derr
     ELSE img' = img /\ dpc' = "resize" /\ derr' = derr
  /\ UNCHANGED <<img_in, small, n_text, n_line, n_spans, page_dims,
                 stages_run, out_image>>
  /\ UNCHANGED <<opt_res, dw_params, dims_res>>

DwResize ==
  /\ UNCHANGED otherThanDw
  /\ dpc = "resize"
  /\ small' = resize_to_screen(img)
  /\ stages_run' = stages_run \cup {"resize_to_screen"}
  /\ dpc' = "page_extents"
  /\ UNCHANGED <<img_in, img, n_text, n_line, n_spans, page_dims, out_image, derr>>
  /\ UNCHANGED <<opt_res, dw_params, dims_res>>

DwPageExtents ==
  /\ UNCHANGED otherThanDw
  /\ dpc = "page_extents"
  /\ stages_run' = stages_run \cup {"get_page_extents"}
  /\ dpc' = "text_pass"
  /\ UNCHANGED <<img_in, img, small, n_text, n_line, n_spans, page_dims,
                 out_image, derr>>
  /\ UNCHANGED <<opt_res, dw_params, dims_res>>

(* get_mask opens with cvtColor(small, COLOR_RGB2GRAY), which takes 3 or 4 *)
(* channels and raises cv2.error for anything else.                        *)
MaskConvertible(image) == Len(image) = 3 /\ image[3] \in {3, 4}

(* What get_contours followed by assemble_spans can end with: a number of  *)
(* spans, or the TypeError of candidate_edges.sort() on equal scores.      *)
PassOutcomes == (0..MaxSpans) \cup {-2}

mut_RetryInLineMode_at_three(n) == n <= 3

RetryInLineMode(n) == n < 3

ChosenSpans(nt, nl) == IF nl > nt THEN nl ELSE nt

(* Lines 849-850, and the test of line 853 when no retry follows.          *)
DwTextPass ==
  /\ UNCHANGED otherThanDw
  /\ dpc = "text_pass"
  /\ stages_run' = stages_run \cup {"get_contours_text"}
  /\ IF ~MaskConvertible(small)
     THEN /\ derr' = "cv2.error" /\ dpc' = "raised"
          /\ UNCHANGED <<n_text, n_spans>>
     ELSE \E r \in PassOutcomes :
            IF r = -2
            THEN /\ derr' = "TypeError" /\ dpc' = "raised"
                 /\ UNCHANGED <<n_text, n_spans>>
            ELSE /\ n_text' = r
                 /\ derr' = derr
                 /\ IF RetryInLineMode(r)
                    THEN dpc' = "line_pass" /\ n_spans' = n_spans
                    ELSE dpc' = "spans_chosen" /\ n_spans' = r
  /\ UNCHANGED <<img_in, img, small, n_line, page_dims, out_image>>
  /\ UNCHANGED <<opt_res, dw_params, dims_res>>

(* Lines 854-858.                                                          *)
DwLinePass ==
  /\ UNCHANGED otherThanDw
  /\ dpc = "line_pass"
  /\ stages_run' = stages_run \cup {"get_contours_line"}
  /\ \E r \in PassOutcomes :
       IF r = -2
       THEN /\ derr' = "TypeError" /\ dpc' = "raised"
            /\ UNCHANGED <<n_line, n_spans>>
       ELSE /\ n_line' = r
            /\ n_spans' = ChosenSpans(n_text, r)
            /\ derr' = derr
            /\ dpc' = "spans_chosen"
  /\ UNCHANGED <<img_in, img, small, n_text, page_dims, out_image>>
  /\ UNCHANGED <<opt_res, dw_params, dims_res>>

(* Lines 860-863.                                                          *)
DwNoSpans ==
  /\ UNCHANGED otherThanDw
  /\ dpc = "spans_chosen"
  /\ n_spans < 1
  /\ out_image' = [kind |-> "gray", shape |-> <<small[1], small[2]>>]
  /\ dpc' = "returned"
  /\ UNCHANGED <<img_in, img, small, n_text, n_line, n_spans, page_dims,
                 stages_run, derr>>
  /\ UNCHANGED <<opt_res, dw_params, dims_res>>

DwStage(from, stage, to) ==
  /\ UNCHANGED otherThanDw
  /\ dpc = from
  /\ stages_run' = stages_run \cup {stage}
  /\ dpc' = to
  /\ UNCHANGED <<img_in, img, small, n_text, n_line, n_spans, out_image, derr>>

DwSampleSpans ==
  /\ n_spans >= 1
  /\ DwStage("spans_chosen", "sample_spans", "keypoints")
  /\ UNCHANGED <<opt_res, dw_params, dims_res, page_dims>>

DwKeypoints ==
  /\ DwStage("keypoints", "keypoints_from_samples", "default_params")
  /\ UNCHANGED <<opt_res, dw_params, dims_res, page_dims>>

DwDefaultParams ==
  /\ DwStage("default_params", "get_default_params", "optimize")
  /\ UNCHANGED <<opt_res, dw_params, dims_res, page_dims>>

(* Lines 712-721: res = minimize(...); params = res.x; return params.      *)
DwOptimize ==
  /\ DwStage("optimize", "optimize_params", "page_dims")
  /\ \E res \in OptimizeResults(ParamVectors) :
       /\ opt_res' = res
       /\ dw_params' = ResX(res)
  /\ UNCHANGED <<dims_res, page_dims>>

(* Lines 735-739: res = minimize(...); dims = res.x; return dims.         *)
DwPageDims ==
  /\ DwStage("page_dims", "get_page_dims", "remap")
  /\ \E res \in OptimizeResults(PageDimsUniverse) :
       /\ dims_res' = res
       /\ page_dims' = ResX(res)
  /\ UNCHANGED <<opt_res, dw_params>>

DwRemap ==
  /\ UNCHANGED otherThanDw
  /\ dpc = "remap"
  /\ stages_run' = stages_run \cup {"remap_image"}
  /\ out_image' = [kind |-> "composite", shape |-> remap_image_shape(img, page_dims)]
  /\ dpc' = "returned"
  /\ UNCHANGED <<img_in, img, small, n_text, n_line, n_spans, page_dims, derr>>
  /\ UNCHANGED <<opt_res, dw_params, dims_res>>

DwNext ==
  \/ DwNormalize
  \/ DwResize
  \/ DwPageExtents
  \/ DwTextPass
  \/ DwLinePass
  \/ DwNoSpans
  \/ DwSampleSpans
  \/ DwKeypoints
  \/ DwDefaultParams
  \/ DwOptimize
  \/ DwPageDims
  \/ DwRemap

InitDewarp ==
  DwInit /\ AsmIdle /\ PixIdle /\ GcIdle /\ RmIdle /\ ParIdle /\ TwoIdle /\ FitIdle
  /\ RtIdle /\ PeIdle

SpecDewarp == InitDewarp /\ [][DwNext]_vars

DwEnded == dpc \in {"returned", "raised"}

(* C5: when neither pass yields a span, page_dewarp returns, without       *)
(* raising, a single-channel image of the height and width of the image    *)
(* the caller passed, whatever its size.                                   *)
C5_NoSpansSameSize ==
  /\ (n_text = 0 /\ n_line = 0) => derr = "none"
  /\ (dpc = "returned" /\ n_spans = 0) =>
       /\ Len(out_image.shape) = 2
       /\ out_image.shape[1] = img_in[1]
       /\ out_image.shape[2] = img_in[2]

(* What the no-span return does satisfy: no exception, and a               *)
(* single-channel image of the size of the screen-sized copy.              *)
DwNoSpansReturnsSmallGray ==
  /\ (n_text = 0 /\ n_line = 0) => derr = "none"
  /\ (dpc = "returned" /\ n_spans = 0) =>
       /\ out_image.kind = "gray"
       /\ out_image.shape = <<small[1], small[2]>>
       /\ small = resize_to_screen(img)

Supported(shape) == Len(shape) = 2 \/ (Len(shape) = 3 /\ shape[3] \in {3, 4})

(* C7: an input that is neither 2-D nor 3- or 4-channel makes page_dewarp  *)
(* fail with InvalidImageFormat before any stage runs.                     *)
C7_UnsupportedRejected ==
  ~Supported(img_in) =>
    /\ stages_run = {}
    /\ DwEnded => derr = "InvalidImageFormat"

(* C8: the array handed to resize_to_screen and to the later stages has    *)
(* exactly three channels whatever the input was, and a 3-channel input    *)
(* arrives there unchanged.                                                *)
C8_ThreeChannelsDownstream ==
  "resize_to_screen" \in stages_run =>
    /\ Len(img) = 3 /\ img[3] = 3
    /\ (Len(img_in) = 3 /\ img_in[3] = 3) => img = img_in

(* What the normalisation does achieve: a supported input is 3-channel     *)
(* from resize_to_screen on, and a 3-channel input is untouched.           *)
DwSupportedNormalised ==
  (Supported(img_in) /\ "resize_to_screen" \in stages_run) =>
    /\ Len(img) = 3 /\ img[3] = 3
    /\ img[1] = img_in[1] /\ img[2] = img_in[2]
    /\ (Len(img_in) = 3 /\ img_in[3] = 3) => img = img_in

(* What holds of the two minimize calls in every state: their result      *)
(* vector is what the stage returns, whatever the status, no exception     *)
(* follows, and the image returned is the remap under those dimensions.    *)
MinimizerState ==
  /\ "optimize_params" \in stages_run =>
       /\ opt_res \in OptimizeResults(ParamVectors)
       /\ dw_params = opt_res.x
       /\ derr = "none"
  /\ "get_page_dims" \in stages_run =>
       /\ dims_res \in OptimizeResults(PageDimsUniverse)
       /\ page_dims = dims_res.x
       /\ derr = "none"
  /\ "remap_image" \in stages_run =>
       /\ dpc = "returned"
       /\ out_image = [kind |-> "composite",
                       shape |-> remap_image_shape(img, dims_res.x)]

(* The steps from the first minimize call on: optimize_params is followed  *)
(* by get_page_dims, that by remap_image, that by the return, and no stage *)
(* is entered a second time.                                               *)
MinimizerStep ==
  /\ dpc = "optimize" => dpc' = "page_dims" /\ "optimize_params" \notin stages_run
  /\ dpc = "page_dims" => dpc' = "remap" /\ "get_page_dims" \notin stages_run
  /\ dpc = "remap" => dpc' = "returned" /\ "remap_image" \notin stages_run

(* C13: whatever status the Powell minimizer reports, optimize_params and  *)
(* get_page_dims return its result vector and page_dewarp goes on to the   *)
(* remapping with it; a failure to converge raises nothing, repeats        *)
(* nothing and changes nothing in the path taken.                          *)
C13_StatusIgnored == []MinimizerState /\ [][MinimizerStep]_vars

(* C13 witness: page_dewarp has returned the remapped image after the      *)
(* minimizer ran out of iterations in optimize_params and out of function  *)
(* evaluations in get_page_dims.                                           *)
C13_Witness ==
  /\ dpc = "returned"
  /\ out_image.kind = "composite"
  /\ opt_res.status = 2 /\ ~opt_res.success
  /\ dims_res.status = 1 /\ ~dims_res.success
  /\ dw_params = opt_res.x
  /\ page_dims = dims_res.x

(* The integers and factors round_nearest_multiple is tried on besides the *)
(* sizes page_dewarp hands it.                                             *)
RoundInputs == (0 - 2 * REMAP_DECIMATE)..(2 * REMAP_DECIMATE)
RoundFactors == {1, 3, REMAP_DECIMATE}

(* the height remap_image hands to round_nearest_multiple, after int() *)
RawHeight == (page_dims[2] * img[1]) \div (2 * DimsScale)

(* the width remap_image hands to round_nearest_multiple, after int() *)
RawWidth == (out_image.shape[1] * page_dims[1]) \div page_dims[2]

(* C25: round_nearest_multiple(i, factor) is the smallest multiple of      *)
(* factor that is >= int(i): a multiple, at least int(i), less than factor *)
(* above it.  So the height and width of the output of remap_image are     *)
(* multiples of REMAP_DECIMATE, and the size of the low-resolution map     *)
(* times REMAP_DECIMATE is the full output size.                           *)
C25_RoundedToMultiple ==
  /\ \A i \in RoundInputs, f \in RoundFactors :
       LET r == round_nearest_multiple(i, f)
       IN r % f = 0 /\ r - i \in 0..(f - 1)
  /\ out_image.kind = "composite" =>
       LET hgt == out_image.shape[1]
           wid == out_image.shape[2]
           sm == remap_small_shape(out_image.shape)
       IN /\ hgt % REMAP_DECIMATE = 0 /\ hgt - RawHeight \in 0..(REMAP_DECIMATE - 1)
          /\ wid % REMAP_DECIMATE = 0 /\ wid - RawWidth \in 0..(REMAP_DECIMATE - 1)
          /\ sm[1] * REMAP_DECIMATE = hgt
          /\ sm[2] * REMAP_DECIMATE = wid

(* C25 witness: remap_image has run on sizes neither of which was a        *)
(* multiple of REMAP_DECIMATE, so that both were rounded up.               *)
C25_Witness ==
  /\ out_image.kind = "composite"
  /\ RawHeight % REMAP_DECIMATE # 0
  /\ RawWidth % REMAP_DECIMATE # 0
  /\ out_image.shape[1] > RawHeight
  /\ out_image.shape[2] > RawWidth

(***************************************************************************)
(* get_default_params and project_xy.  The entries of the parameter        *)
(* vector are carried as integers; a page x coordinate is a count of       *)
(* 1/XDen, and a value of the height polynomial a count of 1/XDen^3 of the *)
(* unit of the slopes, so that its arithmetic is exact.                    *)
(***************************************************************************)
RVEC_IDX == <<0, 3>>

TVEC_IDX == <<3, 6>>

CUBIC_IDX == <<6, 8>>

(* seq[slice(start, stop)] *)
Slice(seq, idx) == SubSeq(seq, idx[1] + 1, Min(idx[2], Len(seq)))

(* np.hstack of a tuple of 1-D arrays *)
RECURSIVE hstack(_)
hstack(arrays) ==
  IF arrays = <<>> THEN <<>> ELSE Head(arrays) \o hstack(Tail(arrays))

(* np.linalg.norm of the difference of two points, to the integer below *)
NormOfDifference(p, q) == ISqrt(Dot(<<p[1] - q[1], p[2] - q[2]>>,
                                    <<p[1] - q[1], p[2] - q[2]>>))

(* get_default_params with the y offsets after the x offsets *)
mut_get_default_params_x_before_y(cs, yc, xc, solved) ==
  [rough_dims |-> <<NormOfDifference(cs[2], cs[1]),
                    NormOfDifference(cs[Len(cs)], cs[1])>>,
   span_counts |-> [i \in 1..Len(xc) |-> Len(xc[i])],
   params |-> hstack(<<solved.rvec, solved.tvec, <<0, 0>>>> \o xc \o <<yc>>)]

(* get_default_params(corners, ycoords, xcoords), solved being what        *)
(* cv2.solvePnP returns for the corners.                                   *)
get_default_params(cs, yc, xc, solved) ==
  LET page_width == NormOfDifference(cs[2], cs[1])
      page_height == NormOfDifference(cs[Len(cs)], cs[1])
      cubic_slopes == <<0, 0>>
  IN [rough_dims |-> <<page_width, page_height>>,
      span_counts |-> [i \in 1..Len(xc) |-> Len(xc[i])],
      params |-> hstack(<<solved.rvec, solved.tvec, cubic_slopes, yc>> \o xc)]

(* The coefficient array of project_xy with the square term doubled *)
mut_CubicPoly_other_square_term(alpha, beta) ==
  <<alpha + beta, (-2) * alpha + (-2) * beta, alpha, 0>>

(* poly of project_xy, highest power first *)
CubicPoly(alpha, beta) ==
  <<alpha + beta, (-2) * alpha + (-1) * beta, alpha, 0>>

(* np.polyval(p, k / den) by Horner's rule, as the numerator over          *)
(* den^(Len(p) - 1).                                                       *)
RECURSIVE HornerUpTo(_, _, _, _)
HornerUpTo(p, k, den, n) ==
  IF n = 0 THEN 0
  ELSE HornerUpTo(p, k, den, n - 1) * k + p[n] * (den ^ (n - 1))

polyval(p, k, den) == HornerUpTo(p, k, den, Len(p))

(* objpoints of project_xy for one page point: (x, y, z(x)) *)
ObjPoint(xy, pvec) ==
  LET slopes == Slice(pvec, CUBIC_IDX)
      poly == CubicPoly(slopes[1], slopes[2])
  IN <<xy[1], xy[2], polyval(poly, xy[1], XDen)>>

CornerSets ==
  { << <<0, 0>>, <<30, 0>>, <<30, 40>>, <<0, 40>> >>,
    << <<0, 0>>, <<40, 30>>, <<10, 70>>, <<-30, 40>> >> }

SolvePnPResults ==
  { [rvec |-> <<0, 0, 0>>, tvec |-> <<-15, -20, 120>>],
    [rvec |-> <<7, -8, 9>>, tvec |-> <<-14, -21, 119>>] }

YCoordValues == {-3, 4}

(* The x offsets of span i: count of them, told apart by their values. *)
XCoordsOfSpan(i, count) == [j \in 1..count |-> 1000 + 10 * i + j]

Slopes == (-MaxSlope)..MaxSlope

PagePoints == ((-1)..(XDen + 1)) \X {0, 3}

ParInit ==
  /\ corners \in CornerSets
  /\ pnp \in SolvePnPResults
  /\ \E n \in 1..MaxSpans :
       /\ ycoords \in [1..n -> YCoordValues]
       /\ \E counts \in [1..n -> 1..MaxPoints] :
            xcoords = [i \in 1..n |-> XCoordsOfSpan(i, counts[i])]
  /\ rough_dims = <<0, 0>>
  /\ span_counts = <<>>
  /\ params = <<>>
  /\ xy_coords = <<0, 0>>
  /\ objpoints = <<0, 0, 0>>
  /\ parc = "default_params"

(* rough_dims, span_counts, params = get_default_params(...) *)
ParDefaultParams ==
  /\ UNCHANGED otherThanPar
  /\ parc = "default_params"
  /\ LET r == get_default_params(corners, ycoords, xcoords, pnp)
     IN /\ rough_dims' = r.rough_dims
        /\ span_counts' = r.span_counts
        /\ params' = r.params
  /\ parc' = "optimize"
  /\ UNCHANGED <<corners, ycoords, xcoords, pnp, xy_coords, objpoints>>

(* params = optimize_params(...): the vector the minimizer returns has the *)
(* layout of the one it was given; of its entries the two slopes vary here. *)
ParOptimizeParams ==
  /\ UNCHANGED otherThanPar
  /\ parc = "optimize"
  /\ \E alpha, beta \in Slopes :
       params' = [params EXCEPT ![CUBIC_IDX[1] + 1] = alpha,
                                ![CUBIC_IDX[1] + 2] = beta]
  /\ parc' = "project"
  /\ UNCHANGED <<corners, ycoords, xcoords, pnp, rough_dims, span_counts,
                 xy_coords, objpoints>>

(* project_xy(xy_coords, params), up to objpoints *)
ParProjectXY ==
  /\ UNCHANGED otherThanPar
  /\ parc = "project"
  /\ xy_coords' \in PagePoints
  /\ objpoints' = ObjPoint(xy_coords', params)
  /\ parc' = "projected"
  /\ UNCHANGED <<corners, ycoords, xcoords, pnp, rough_dims, span_counts, params>>

ParNext == ParDefaultParams \/ ParOptimizeParams \/ ParProjectXY

InitParams ==
  ParInit /\ AsmIdle /\ PixIdle /\ DwIdle /\ GcIdle /\ RmIdle /\ TwoIdle
  /\ FitIdle /\ RtIdle /\ PeIdle

SpecParams == InitParams /\ [][ParNext]_vars

RECURSIVE SumUpTo(_, _)
SumUpTo(counts, n) == IF n = 0 THEN 0 ELSE SumUpTo(counts, n - 1) + counts[n]

(* C11: the parameter vector of get_default_params has length 8 + the      *)
(* number of spans + the number of sample points of all spans, and holds   *)
(* rvec at [0:3], tvec at [3:6], the cubic slopes at [6:8], then one y     *)
(* offset per span in span order, then the x offsets of the spans one      *)
(* after another in span order; span_counts[i] is the number of x offsets  *)
(* of span i.                                                              *)
C11_ParamsLayout ==
  parc = "optimize" =>
    LET nspans == Len(xcoords)
        npts == SumUpTo([i \in 1..nspans |-> Len(xcoords[i])], nspans)
    IN /\ Len(params) = 8 + nspans + npts
       /\ Slice(params, RVEC_IDX) = pnp.rvec
       /\ Slice(params, TVEC_IDX) = pnp.tvec
       /\ Slice(params, CUBIC_IDX) = <<0, 0>>
       /\ Len(ycoords) = nspans
       /\ \A i \in 1..nspans : params[8 + i] = ycoords[i]
       /\ Len(span_counts) = nspans
       /\ \A i \in 1..nspans :
            /\ span_counts[i] = Len(xcoords[i])
            /\ \A j \in 1..Len(xcoords[i]) :
                 params[8 + nspans + SumUpTo(span_counts, i - 1) + j]
                   = xcoords[i][j]

(* C11 witness: the vector was built for several spans that differ in the  *)
(* number of their sample points.                                          *)
C11_Witness ==
  /\ parc = "optimize"
  /\ Len(xcoords) >= 2
  /\ \E i, j \in 1..Len(xcoords) : Len(xcoords[i]) < Len(xcoords[j])
  /\ Len(params) > 8 + Len(xcoords)

(* The derivative of a polynomial given by its coefficients. *)
PolyDer(p) == [i \in 1..(Len(p) - 1) |-> (Len(p) - i) * p[i]]

(* C12: the height polynomial of project_xy is zero at x = 0 and at x = 1, *)
(* has slope alpha at 0 and slope beta at 1, for all alpha and beta; the   *)
(* height given to a page point does not depend on its y; and with both    *)
(* slopes zero the height is zero at every x.                              *)
C12_CubicBoundary ==
  parc \in {"project", "projected"} =>
    LET slopes == Slice(params, CUBIC_IDX)
        poly == CubicPoly(slopes[1], slopes[2])
    IN /\ polyval(poly, 0, XDen) = 0
       /\ polyval(poly, XDen, XDen) = 0
       /\ polyval(PolyDer(poly), 0, XDen) = slopes[1] * (XDen ^ 2)
       /\ polyval(PolyDer(poly), XDen, XDen) = slopes[2] * (XDen ^ 2)
       /\ parc = "projected" =>
            /\ objpoints[1] = xy_coords[1] /\ objpoints[2] = xy_coords[2]
            /\ \A q \in PagePoints :
                 q[1] = xy_coords[1] => ObjPoint(q, params)[3] = objpoints[3]
            /\ (slopes = <<0, 0>>) => objpoints[3] = 0

(* C12 witness: a page point off the x axis and strictly inside the page   *)
(* was lifted to a non-zero height with two non-zero slopes.               *)
C12_Witness ==
  /\ parc = "projected"
  /\ params[7] # 0 /\ params[8] # 0
  /\ xy_coords[1] > 0 /\ xy_coords[1] < XDen /\ xy_coords[2] # 0
  /\ objpoints[3] # 0

(***************************************************************************)
(* Two invocations of page_dewarp on independent images, their steps       *)
(* interleaved.  An invocation is its locals; what the libraries compute   *)
(* from the content of its image (the spans of the two passes, the results *)
(* of the two minimize calls) comes with its input.                        *)
(***************************************************************************)
MaxSwitches == 2

(* The module-level names the stages read, with the values lines 28-92     *)
(* give them (FOCAL_LENGTH and K in tenths).                               *)
ModuleValues ==
  [REMAP_DECIMATE |-> REMAP_DECIMATE,
   OUTPUT_ZOOM |-> 1,
   RVEC_IDX |-> RVEC_IDX,
   TVEC_IDX |-> TVEC_IDX,
   CUBIC_IDX |-> CUBIC_IDX,
   FOCAL_LENGTH |-> 12,
   K |-> << <<12, 0, 0>>, <<0, 12, 0>>, <<0, 0, 10>> >>]

CallIds == {1, 2}

CallShapes ==
  {<<MAXH \div 2, MAXW \div 2>>, <<MAXH, MAXW + 1, 3>>,
   <<MAXH \div 2, MAXW \div 2, 4>>, <<MAXH \div 2, MAXW \div 2, 2>>}

CallInputs ==
  {[shape |-> sh, text |-> t, line |-> l, opt |-> r[1], dims |-> r[2]] :
     sh \in CallShapes, t \in {0, 3}, l \in {0, 1},
     r \in {<<[x |-> <<"x_a">>, status |-> 0, success |-> TRUE],
              [x |-> <<3, 5>>, status |-> 0, success |-> TRUE]>>,
            <<[x |-> <<"x_b">>, status |-> 2, success |-> FALSE],
              [x |-> <<5, 3>>, status |-> 1, success |-> FALSE]>>}}

(* The locals of page_dewarp(img) as the call begins. *)
CallStart(input) ==
  [input |-> input, img |-> input.shape, small |-> <<>>, n_text |-> -1,
   n_spans |-> -1, params |-> <<>>, page_dims |-> <<0, 0>>,
   out_image |-> [kind |-> "none", shape |-> <<>>], err |-> "none",
   pc |-> "normalize"]

(* remap_image_shape under the module values an invocation finds. *)
remap_image_shape_under(mod, image, dims) ==
  LET hgt == round_nearest_multiple(
               (dims[2] * mod.OUTPUT_ZOOM * image[1]) \div (2 * DimsScale),
               mod.REMAP_DECIMATE)
      wid == round_nearest_multiple((hgt * dims[1]) \div dims[2],
                                    mod.REMAP_DECIMATE)
  IN <<hgt, wid, 3>>

(* The locals after the next stage of page_dewarp, from the locals c and   *)
(* the module values mod.  get_page_extents goes with the text pass, and   *)
(* sample_spans, keypoints_from_samples and get_default_params, which      *)
(* build locals from locals, go with optimize_params.                      *)
StageStep(c, mod) ==
  CASE c.pc = "normalize" ->
         IF Len(c.img) = 2
         THEN [c EXCEPT !.img = <<c.img[1], c.img[2], 3>>, !.pc = "resize"]
         ELSE IF Len(c.img) < 3
         THEN [c EXCEPT !.err = "IndexError", !.pc = "raised"]
         ELSE IF c.img[3] = 4
         THEN [c EXCEPT !.img = <<c.img[1], c.img[2], 3>>, !.pc = "resize"]
         ELSE [c EXCEPT !.pc = "resize"]
    [] c.pc = "resize" ->
         [c EXCEPT !.small = resize_to_screen(c.img), !.pc = "text_pass"]
    [] c.pc = "text_pass" ->
         IF ~MaskConvertible(c.small)
         THEN [c EXCEPT !.err = "cv2.error", !.pc = "raised"]
         ELSE IF RetryInLineMode(c.input.text)
         THEN [c EXCEPT !.n_text = c.input.text, !.pc = "line_pass"]
         ELSE [c EXCEPT !.n_text = c.input.text, !.n_spans = c.input.text,
                        !.pc = "spans_chosen"]
    [] c.pc = "line_pass" ->
         [c EXCEPT !.n_spans = ChosenSpans(c.n_text, c.input.line),
                   !.pc = "spans_chosen"]
    [] c.pc = "spans_chosen" ->
         IF c.n_spans < 1
         THEN [c EXCEPT !.out_image = [kind |-> "gray",
                                       shape |-> <<c.small[1], c.small[2]>>],
                        !.pc = "returned"]
         ELSE [c EXCEPT !.pc = "optimize"]
    [] c.pc = "optimize" ->
         [c EXCEPT !.params = ResX(c.input.opt), !.pc = "page_dims"]
    [] c.pc = "page_dims" ->
         [c EXCEPT !.page_dims = ResX(c.input.dims), !.pc = "remap"]
    [] c.pc = "remap" ->
         [c EXCEPT !.out_image =
                     [kind |-> "composite",
                      shape |-> remap_image_shape_under(mod, c.img, c.page_dims)],
                   !.pc = "returned"]
    [] OTHER -> c

CallEnded(c) == c.pc \in {"returned", "raised"}

(* a remap_image that halves the module's REMAP_DECIMATE as it leaves *)
mut_ModuleAfter_remap_writes(stage, mod) ==
  IF stage = "remap"
  THEN [mod EXCEPT !.REMAP_DECIMATE = mod.REMAP_DECIMATE \div 2]
  ELSE mod

(* The module values after a stage has run: no stage assigns a module-level *)
(* name or writes into K.                                                   *)
ModuleAfter(stage, mod) == mod

TwoInit ==
  /\ module_values = ModuleValues
  /\ \E in1, in2 \in CallInputs : calls = <<CallStart(in1), CallStart(in2)>>
  /\ last_call = 0
  /\ switches = 0

(* Invocation i runs its next stage. *)
TwoStage(i, stage) ==
  /\ UNCHANGED otherThanTwo
  /\ calls[i].pc = stage
  /\ calls' = [calls EXCEPT ![i] = StageStep(calls[i], module_values)]
  /\ module_values' = ModuleAfter(stage, module_values)
  /\ last_call' = i
  /\ switches' = IF last_call \notin {0, i} /\ switches < MaxSwitches
                 THEN switches + 1 ELSE switches

TwoNormalize == \E i \in CallIds : TwoStage(i, "normalize")

TwoResize == \E i \in CallIds : TwoStage(i, "resize")

TwoTextPass == \E i \in CallIds : TwoStage(i, "text_pass")

TwoLinePass == \E i \in CallIds : TwoStage(i, "line_pass")

TwoSpansChosen == \E i \in CallIds : TwoStage(i, "spans_chosen")

TwoOptimize == \E i \in CallIds : TwoStage(i, "optimize")

TwoPageDims == \E i \in CallIds : TwoStage(i, "page_dims")

TwoRemap == \E i \in CallIds : TwoStage(i, "remap")

TwoNext ==
  \/ TwoNormalize
  \/ TwoResize
  \/ TwoTextPass
  \/ TwoLinePass
  \/ TwoSpansChosen
  \/ TwoOptimize
  \/ TwoPageDims
  \/ TwoRemap

InitTwo ==
  TwoInit /\ AsmIdle /\ PixIdle /\ DwIdle /\ GcIdle /\ RmIdle /\ ParIdle
  /\ FitIdle /\ RtIdle /\ PeIdle

SpecTwo == InitTwo /\ [][TwoNext]_vars

(* page_dewarp run alone on an input: its stages one after another under   *)
(* the module values of lines 28-92, to the end.                           *)
RECURSIVE RunToEnd(_, _)
RunToEnd(c, steps) ==
  IF CallEnded(c) \/ steps = 0 THEN c
  ELSE RunToEnd(StageStep(c, ModuleValues), steps - 1)

RunAlone(input) == RunToEnd(CallStart(input), 10)

BlobUniverse ==
  {b \in [width : {TEXT_MIN_WIDTH - 1, TEXT_MIN_WIDTH, 3 * TEXT_MIN_WIDTH},
          height : {TEXT_MIN_HEIGHT - 1, TEXT_MIN_HEIGHT, TEXT_MAX_THICKNESS,
                    TEXT_MAX_THICKNESS + 2},
          thickness : {1, TEXT_MAX_THICKNESS, TEXT_MAX_THICKNESS + 1}] :
     b.thickness <= b.height}

BlobLists == UNION {[1..n -> BlobUniverse] : n \in 0..MaxBlobs}

mut_RectRejected_any_width(rect) ==
  \/ rect.height < TEXT_MIN_HEIGHT
  \/ 2 * rect.width < TEXT_MIN_ASPECT_X2 * rect.height

(* Lines 473-475; TEXT_MIN_ASPECT is 1.5, compared here after doubling.    *)
RectRejected(rect) ==
  \/ rect.width < TEXT_MIN_WIDTH
  \/ rect.height < TEXT_MIN_HEIGHT
  \/ 2 * rect.width < TEXT_MIN_ASPECT_X2 * rect.height

(* Line 479.                                                               *)
TooThick(blob) == blob.thickness > TEXT_MAX_THICKNESS

GcInit ==
  /\ masktype \in {"text", "line"}
  /\ contours \in BlobLists
  /\ contour_i = 0
  /\ contours_out = <<>>
  /\ gpc = "loop"

(* One pass of the for loop: continue, continue, or append.                *)
GcFilterContour ==
  /\ UNCHANGED otherThanGc
  /\ gpc = "loop"
  /\ contour_i < Len(contours)
  /\ contour_i' = contour_i + 1
  /\ LET contour == contours[contour_i + 1]
     IN IF RectRejected(contour)
        THEN contours_out' = contours_out
        ELSE IF TooThick(contour)
        THEN contours_out' = contours_out
        ELSE contours_out' = Append(contours_out, contour_i + 1)
  /\ UNCHANGED <<masktype, contours, gpc>>

GcReturn ==
  /\ UNCHANGED otherThanGc
  /\ gpc = "loop"
  /\ contour_i = Len(contours)
  /\ gpc' = "returned"
  /\ UNCHANGED <<masktype, contours, contour_i, contours_out>>

GcNext == GcFilterContour \/ GcReturn

InitContours ==
  GcInit /\ AsmIdle /\ PixIdle /\ DwIdle /\ RmIdle /\ ParIdle /\ TwoIdle /\ FitIdle
  /\ RtIdle /\ PeIdle

SpecContours == InitContours /\ [][GcNext]_vars

(* C9: no contour whose bounding box is narrower than TEXT_MIN_WIDTH is    *)
(* ever in the list get_contours builds, whatever its height, aspect       *)
(* ratio or thickness, in text mode and in line mode.                      *)
C9_NarrowNeverKept ==
  \A k \in 1..Len(contours_out) :
    contours[contours_out[k]].width >= TEXT_MIN_WIDTH

(* C9 witness: get_contours has returned a non-empty list from contours    *)
(* that held one too narrow but otherwise acceptable.                      *)
C9_Witness ==
  /\ gpc = "returned"
  /\ Len(contours_out) > 0
  /\ \E k \in 1..Len(contours) :
       /\ contours[k].width < TEXT_MIN_WIDTH
       /\ ~mut_RectRejected_any_width(contours[k])
       /\ ~TooThick(contours[k])

(***************************************************************************)
(* remap_image, from the adaptive threshold to the composite.  Pixels are  *)
(* 8-bit RGB triples; the grey remap and the colour remap sample the same  *)
(* source pixel through the same map.                                      *)
(***************************************************************************)
MaxOf3(p) == Max(p[1], Max(p[2], p[3]))

MinOf3(p) == Min(p[1], Min(p[2], p[3]))

(* cv2.COLOR_RGB2GRAY on 8-bit data: fixed-point weights, 14 bits.         *)
RGB2GRAY(p) == (p[1] * 4899 + p[2] * 9617 + p[3] * 1868 + 8192) \div 16384

(* cv2.COLOR_RGB2HSV on 8-bit data: H in 0..179, S and V in 0..255.        *)
RGB2HSV(p) ==
  LET v == MaxOf3(p)
      diff == v - MinOf3(p)
      sat == IF v = 0 THEN 0 ELSE RoundDiv(255 * diff, v)
      h0 == IF diff = 0 THEN 0
            ELSE IF v = p[1] THEN p[2] - p[3]
            ELSE IF v = p[2] THEN p[3] - p[1] + 2 * diff
            ELSE p[1] - p[2] + 4 * diff
      h1 == IF diff = 0 THEN 0
            ELSE IF h0 >= 0 THEN RoundDiv(30 * h0, diff)
            ELSE -RoundDiv(30 * (-h0), diff)
      hue == IF h1 < 0 THEN h1 + 180 ELSE h1
  IN <<hue, sat, v>>

(* The two cv2.inRange windows of lines 788-795, or-ed.                    *)
InRedRange(hsv) ==
  /\ hsv[2] >= 60
  /\ hsv[3] >= 60
  /\ (hsv[1] <= 10 \/ (hsv[1] >= 170 /\ hsv[1] <= 180))

Palette ==
  {<<0, 0, 0>>, <<255, 255, 255>>, <<128, 128, 128>>, <<255, 0, 0>>,
   <<200, 30, 30>>, <<255, 0, 40>>, <<50, 10, 10>>, <<255, 128, 0>>,
   <<0, 0, 255>>, <<0, 200, 0>>}

LocalMeans == {0, 128, 255}

RmInit ==
  /\ \E n \in 1..MaxPixels :
       /\ remapped_color \in [1..n -> Palette]
       /\ local_mean \in [1..n -> LocalMeans]
  /\ thresh = <<>>
  /\ red_mask = <<>>
  /\ final_image = <<>>
  /\ rpc = "threshold"

(* Lines 769-776: ADAPTIVE_THRESH_MEAN_C with THRESH_BINARY.               *)
RmThreshold ==
  /\ UNCHANGED otherThanRm
  /\ rpc = "threshold"
  /\ thresh' = [k \in DOMAIN remapped_color |->
                  IF RGB2GRAY(remapped_color[k]) > local_mean[k] - ADAPTIVE_C
                  THEN 255 ELSE 0]
  /\ rpc' = "red_mask"
  /\ UNCHANGED <<remapped_color, local_mean, red_mask, final_image>>

(* Lines 779-795.                                                          *)
RmRedMask ==
  /\ UNCHANGED otherThanRm
  /\ rpc = "red_mask"
  /\ red_mask' = [k \in DOMAIN remapped_color |->
                    IF InRedRange(RGB2HSV(remapped_color[k])) THEN 255 ELSE 0]
  /\ rpc' = "paint_red"
  /\ UNCHANGED <<remapped_color, local_mean, thresh, final_image>>

(* Lines 798-802: zeros, then (0, 0, 255) where the red mask is on.        *)
RmPaintRed ==
  /\ UNCHANGED otherThanRm
  /\ rpc = "paint_red"
  /\ final_image' = [k \in DOMAIN thresh |->
                       IF red_mask[k] > 0 THEN <<0, 0, 255>> ELSE <<0, 0, 0>>]
  /\ rpc' = "paint_white"
  /\ UNCHANGED <<remapped_color, local_mean, thresh, red_mask>>

(* Lines 806-807 and the return.                                           *)
RmPaintWhite ==
  /\ UNCHANGED otherThanRm
  /\ rpc = "paint_white"
  /\ final_image' = [k \in DOMAIN thresh |->
                       IF red_mask[k] = 0 /\ thresh[k] = 255
                       THEN <<255, 255, 255>> ELSE final_image[k]]
  /\ rpc' = "returned"
  /\ UNCHANGED <<remapped_color, local_mean, thresh, red_mask>>

RmNext == RmThreshold \/ RmRedMask \/ RmPaintRed \/ RmPaintWhite

InitRemap ==
  RmInit /\ AsmIdle /\ PixIdle /\ DwIdle /\ GcIdle /\ ParIdle /\ TwoIdle /\ FitIdle
  /\ RtIdle /\ PeIdle

SpecRemap == InitRemap /\ [][RmNext]_vars

(* C10: every pixel of the returned composite is black, white or red; red  *)
(* exactly where the red mask is set, white exactly where it is unset and  *)
(* the threshold says background, black elsewhere; and the red written is  *)
(* red under the RGB reading the pipeline gives its input, i.e. it passes  *)
(* the pipeline's own red-hue test.                                        *)
C10_CompositeColours ==
  rpc = "returned" =>
    \A k \in DOMAIN final_image :
      /\ (red_mask[k] > 0) <=> InRedRange(RGB2HSV(final_image[k]))
      /\ (red_mask[k] = 0 /\ thresh[k] = 255) <=> final_image[k] = <<255, 255, 255>>
      /\ (red_mask[k] = 0 /\ thresh[k] = 0) <=> final_image[k] = <<0, 0, 0>>

(* What the composite does satisfy: three values only, chosen by the mask  *)
(* and the threshold as stated, the masked value being (0, 0, 255).        *)
RmCompositeThreeValues ==
  rpc = "returned" =>
    \A k \in DOMAIN final_image :
      /\ (red_mask[k] > 0) <=> final_image[k] = <<0, 0, 255>>
      /\ (red_mask[k] = 0 /\ thresh[k] = 255) <=> final_image[k] = <<255, 255, 255>>
      /\ (red_mask[k] = 0 /\ thresh[k] = 0) <=> final_image[k] = <<0, 0, 0>>


(***************************************************************************)
(* From the spans to the fitted parameters: sample_spans, the keypoints,   *)
(* make_keypoint_index and the objective evaluations of optimize_params    *)
(* and get_page_dims.  A contour of a span is the width of its mask, the   *)
(* corner of its bounding rectangle and the mean row of its mask columns;  *)
(* points are carried in the fixed point of pix2norm.  Text lines are      *)
(* horizontal, so that x_dir of keypoints_from_samples is (1, 0).          *)
(***************************************************************************)
(* range(start, stop, step) of python, as the list of its members *)
PyRange(start, stop, step) ==
  [k \in 1..(IF stop > start THEN (stop - start + step - 1) \div step ELSE 0)
     |-> start + (k - 1) * step]

(* sampling from column 0 on *)
mut_SampleColumns_from_zero(L) == PyRange(0, L, SPAN_PX_PER_STEP)

(* The mask columns sample_spans takes of a contour whose mask is L        *)
(* columns wide: range(int(start), len(means), step) with                  *)
(* start = ((len(means) - 1) % step) / 2.                                  *)
SampleColumns(L) ==
  LET step == SPAN_PX_PER_STEP
      start2 == (L - 1) % step      \* twice start
  IN PyRange(start2 \div 2, L, step)

(* contour_points of one contour, before pix2norm, in pixels *)
ContourPoints(c) ==
  LET cols == SampleColumns(c.L)
  IN [k \in 1..Len(cols) |-> <<cols[k] + c.xmin, c.mean + c.ymin>>]

(* sample_spans(shape, spans) *)
sample_spans(shape, spns) ==
  [i \in 1..Len(spns) |->
     LET contour_points == hstack([j \in 1..Len(spns[i]) |-> ContourPoints(spns[i][j])])
     IN [k \in 1..Len(contour_points) |->
           pix2norm(shape, <<contour_points[k][1] * FxOne,
                             contour_points[k][2] * FxOne>>)]]

RECURSIVE SumOf(_)
SumOf(seq) == IF seq = <<>> THEN 0 ELSE Head(seq) + SumOf(Tail(seq))

(* keypoints_from_samples for horizontal text: the page corners from the   *)
(* extents of the page outline, per span the mean y offset and the x       *)
(* offsets of its points from the corner p00.                              *)
keypoints_from_samples(shape, outline, spts) ==
  LET p0 == pix2norm(shape, <<outline[1][1] * FxOne, outline[1][2] * FxOne>>)
      p1 == pix2norm(shape, <<outline[2][1] * FxOne, outline[2][2] * FxOne>>)
      px0 == Min(p0[1], p1[1])
      px1 == Max(p0[1], p1[1])
      py0 == Min(p0[2], p1[2])
      py1 == Max(p0[2], p1[2])
  IN [corners |-> << <<px0, py0>>, <<px1, py0>>, <<px1, py1>>, <<px0, py1>> >>,
      ycoords |-> [i \in 1..Len(spts) |->
                     RoundDiv(SumOf([k \in 1..Len(spts[i]) |-> spts[i][k][2]]),
                              Len(spts[i])) - py0],
      xcoords |-> [i \in 1..Len(spts) |->
                     [k \in 1..Len(spts[i]) |-> spts[i][k][1] - px0]]]

(* dstpoints of page_dewarp without the corner *)
mut_dstpoints_of_without_corner(cs, spts) == hstack(spts)

(* dstpoints of page_dewarp: np.vstack of corners[0] and the span points *)
dstpoints_of(cs, spts) == <<cs[1]>> \o hstack(spts)



(* the loop of make_keypoint_index without its `start = end` *)
RECURSIVE mut_KeypointLoop_start_kept(_, _, _, _, _)
mut_KeypointLoop_start_kept(counts, i, start, col1, npts) ==
  IF i = Len(counts) THEN col1
  ELSE LET end == start + counts[i + 1]
       IN mut_KeypointLoop_start_kept(counts, i + 1, start,
            [k \in 0..npts |-> IF k >= start /\ k < start + end THEN 8 + i ELSE col1[k]],
            npts)

mut_make_keypoint_index_start_kept(counts) ==
  LET nspans == Len(counts)
      npts == SumOf(counts)
      col1 == mut_KeypointLoop_start_kept(counts, 0, 1, [k \in 0..npts |-> 0], npts)
  IN [k \in 0..npts |-> <<IF k = 0 THEN 0 ELSE (k - 1) + 8 + nspans, col1[k]>>]

(* for i, count in enumerate(span_counts), from iteration i on, on column  *)
(* 1 of the table: keypoint_index[start:start + end, 1] = 8 + i writes the *)
(* rows from start up to, not including, start + end, as far as the table  *)
(* has them.                                                               *)
RECURSIVE KeypointLoop(_, _, _, _, _)
KeypointLoop(counts, i, start, col1, npts) ==
  IF i = Len(counts) THEN col1
  ELSE LET end == start + counts[i + 1]
       IN KeypointLoop(counts, i + 1, end,
            [k \in 0..npts |-> IF k >= start /\ k < start + end THEN 8 + i ELSE col1[k]],
            npts)

(* make_keypoint_index(span_counts): the table, rows 0..npts *)
make_keypoint_index(counts) ==
  LET nspans == Len(counts)
      npts == SumOf(counts)
      col1 == KeypointLoop(counts, 0, 1, [k \in 0..npts |-> 0], npts)
  IN [k \in 0..npts |-> <<IF k = 0 THEN 0 ELSE (k - 1) + 8 + nspans, col1[k]>>]

(* project_xy(xy_coords, pvec) for an array of points: the arrays it was   *)
(* handed as they are after the call, and objpoints.  reshape gives a view *)
(* that is only read; hstack builds a new array.                           *)
project_xy(xy, pv) ==
  LET slopes == Slice(pv, CUBIC_IDX)
      poly == CubicPoly(slopes[1], slopes[2])
  IN [xy_coords |-> xy,
      pvec |-> pv,
      objpoints |-> [k \in DOMAIN xy |->
                       <<xy[k][1], xy[k][2], polyval(poly, xy[k][1], FxOne)>>]]

(* project_keypoints with xy_coords a view of pvec, so that                *)
(* xy_coords[0, :] = 0 writes pvec[keypoint_index[0]]                      *)
mut_project_keypoints_view(pv, kidx) ==
  LET written == [pv EXCEPT ![kidx[0][1] + 1] = 0, ![kidx[0][2] + 1] = 0]
      xy == [k \in DOMAIN kidx |-> <<written[kidx[k][1] + 1], written[kidx[k][2] + 1]>>]
  IN [pvec |-> written, xy_coords |-> xy,
      objpoints |-> project_xy(xy, written).objpoints]

(* project_keypoints(pvec, keypoint_index): pvec[keypoint_index], indexing *)
(* by an integer array, is a new array; xy_coords[0, :] = 0 writes it.     *)
project_keypoints(pv, kidx) ==
  LET taken == [k \in DOMAIN kidx |-> <<pv[kidx[k][1] + 1], pv[kidx[k][2] + 1]>>]
      xy == [taken EXCEPT ![0] = <<0, 0>>]
      projected == project_xy(xy, pv)
  IN [pvec |-> projected.pvec, xy_coords |-> projected.xy_coords,
      objpoints |-> projected.objpoints]

FitShape == <<96, 192>>

(* the opposite corners of the page outline of get_page_extents *)
FitOutline == << <<4, 4>>, <<188, 92>> >>

SampleWidths == {SPAN_PX_PER_STEP, 2 * SPAN_PX_PER_STEP + 2}

(* Span i of the page: contours of the mask widths ws, left to right. *)
SpanOfWidths(i, ws) ==
  [j \in 1..Len(ws) |->
     [L |-> ws[j],
      xmin |-> 8 + SumOf(SubSeq(ws, 1, j - 1)) + 4 * (j - 1),
      ymin |-> 16 * i,
      mean |-> 2]]

WidthLists == UNION {[1..m -> SampleWidths] : m \in 1..MaxSpanContours}

FitSpanLists ==
  UNION {{[i \in 1..n |-> SpanOfWidths(i, wss[i])] : wss \in [1..n -> WidthLists]}
           : n \in 1..MaxFitSpans}

(* The vectors the minimizer tries around p: one entry moved by one. *)
Trials(p) == {[p EXCEPT ![CUBIC_IDX[1] + 1] = @ + 1], [p EXCEPT ![Len(p)] = @ - 1]}

FitInit ==
  /\ fit_spans \in FitSpanLists
  /\ pnp \in SolvePnPResults
  /\ span_points = <<>> /\ dstpoints = <<>> /\ keypoint_index = <<>>
  /\ pvec_passed = <<>> /\ pvec_after = <<>> /\ res_x = <<>>
  /\ evals = 0 /\ fpc = "sample_spans"
  /\ corners = <<>> /\ ycoords = <<>> /\ xcoords = <<>>
  /\ rough_dims = <<0, 0>> /\ span_counts = <<>> /\ params = <<>>
  /\ xy_coords = <<0, 0>> /\ objpoints = <<0, 0, 0>> /\ parc = "idle"

otherThanFitPar ==
  <<asmVars, pixVars, dwVars, gcVars, rmVars, twoVars, rtVars, peVars>>

(* span_points = sample_spans(small.shape, spans) *)
FitSampleSpans ==
  /\ UNCHANGED <<otherThanFitPar, parVars>>
  /\ fpc = "sample_spans"
  /\ span_points' = sample_spans(FitShape, fit_spans)
  /\ fpc' = "keypoints"
  /\ UNCHANGED <<fit_spans, dstpoints, keypoint_index, pvec_passed, pvec_after,
                 res_x, evals>>

(* corners, ycoords, xcoords = keypoints_from_samples(...) *)
FitKeypoints ==
  /\ UNCHANGED otherThanFitPar
  /\ fpc = "keypoints"
  /\ LET r == keypoints_from_samples(FitShape, FitOutline, span_points)
     IN /\ corners' = r.corners
        /\ ycoords' = r.ycoords
        /\ xcoords' = r.xcoords
  /\ parc' = "default_params"
  /\ fpc' = "default_params"
  /\ UNCHANGED <<pnp, rough_dims, span_counts, params, xy_coords, objpoints>>
  /\ UNCHANGED <<fit_spans, span_points, dstpoints, keypoint_index, pvec_passed,
                 pvec_after, res_x, evals>>

(* dstpoints = np.vstack(...) *)
FitDstPoints ==
  /\ UNCHANGED <<otherThanFitPar, parVars>>
  /\ fpc = "default_params"
  /\ parc = "optimize"
  /\ dstpoints' = dstpoints_of(corners, span_points)
  /\ fpc' = "make_keypoint_index"
  /\ UNCHANGED <<fit_spans, span_points, keypoint_index, pvec_passed, pvec_after,
                 res_x, evals>>

(* keypoint_index = make_keypoint_index(span_counts) *)
FitMakeKeypointIndex ==
  /\ UNCHANGED <<otherThanFitPar, parVars>>
  /\ fpc = "make_keypoint_index"
  /\ keypoint_index' = make_keypoint_index(span_counts)
  /\ fpc' = "initial_objective"
  /\ UNCHANGED <<fit_spans, span_points, dstpoints, pvec_passed, pvec_after,
                 res_x, evals>>

(* print("  initial objective is", objective(params)): the evaluation is   *)
(* handed the array params itself.                                         *)
FitInitialObjective ==
  /\ UNCHANGED otherThanFitPar
  /\ fpc = "initial_objective"
  /\ LET r == project_keypoints(params, keypoint_index)
     IN /\ pvec_passed' = params
        /\ pvec_after' = r.pvec
        /\ params' = r.pvec
  /\ fpc' = "minimize"
  /\ UNCHANGED <<corners, ycoords, xcoords, pnp, rough_dims, span_counts,
                 xy_coords, objpoints, parc>>
  /\ UNCHANGED <<fit_spans, span_points, dstpoints, keypoint_index, res_x, evals>>

(* One evaluation of objective by scipy.optimize.minimize, on a vector the *)
(* minimizer chose.                                                        *)
FitObjective ==
  /\ UNCHANGED <<otherThanFitPar, parVars>>
  /\ fpc = "minimize"
  /\ evals < MaxEvals
  /\ \E trial \in Trials(params) :
       /\ pvec_passed' = trial
       /\ pvec_after' = project_keypoints(trial, keypoint_index).pvec
  /\ evals' = evals + 1
  /\ UNCHANGED <<fit_spans, span_points, dstpoints, keypoint_index, res_x, fpc>>

(* res = scipy.optimize.minimize(...); params = res.x; return params *)
FitMinimizeReturn ==
  /\ UNCHANGED <<otherThanFitPar, parVars>>
  /\ fpc = "minimize"
  /\ res_x' \in Trials(params) \cup {params}
  /\ evals' = 0
  /\ fpc' = "get_page_dims"
  /\ UNCHANGED <<fit_spans, span_points, dstpoints, keypoint_index, pvec_passed,
                 pvec_after>>

(* One evaluation of the objective of get_page_dims: project_xy(d, params) *)
(* with the fitted params, on dimensions the minimizer chose.              *)
FitDimsObjective ==
  /\ UNCHANGED <<otherThanFitPar, parVars>>
  /\ fpc = "get_page_dims"
  /\ evals < MaxEvals
  /\ \E d \in {rough_dims, <<rough_dims[1] + 1, rough_dims[2]>>} :
       LET r == project_xy(<<d>>, res_x)
       IN /\ pvec_passed' = d
          /\ pvec_after' = r.xy_coords[1]
          /\ res_x' = r.pvec
  /\ evals' = evals + 1
  /\ UNCHANGED <<fit_spans, span_points, dstpoints, keypoint_index, fpc>>

(* dims = res.x; return dims *)
FitDimsReturn ==
  /\ UNCHANGED <<otherThanFitPar, parVars>>
  /\ fpc = "get_page_dims"
  /\ fpc' = "fitted"
  /\ UNCHANGED <<fit_spans, span_points, dstpoints, keypoint_index, pvec_passed,
                 pvec_after, res_x, evals>>

FitNext ==
  \/ FitSampleSpans
  \/ FitKeypoints
  \/ ParDefaultParams
  \/ FitDstPoints
  \/ FitMakeKeypointIndex
  \/ FitInitialObjective
  \/ FitObjective
  \/ FitMinimizeReturn
  \/ FitDimsObjective
  \/ FitDimsReturn

InitFit ==
  FitInit /\ AsmIdle /\ PixIdle /\ DwIdle /\ GcIdle /\ RmIdle /\ TwoIdle
  /\ RtIdle /\ PeIdle

SpecFit == InitFit /\ [][FitNext]_vars



(* keypoint_index has been built *)
IndexBuilt == fpc \in {"initial_objective", "minimize", "get_page_dims", "fitted"}

(* the number of sample points of each span *)
PointCounts == [i \in 1..Len(span_points) |-> Len(span_points[i])]

(* table is the keypoint table of C22 for spans of counts[i] points *)
KeypointTableRight(counts, table) ==
  LET nspans == Len(counts)
      npts == SumOf(counts)
  IN /\ DOMAIN table = 0..npts
     /\ table[0] = <<0, 0>>
     /\ \A i \in 0..(nspans - 1) : \A j \in 1..counts[i + 1] :
          LET k == SumUpTo(counts, i) + j
          IN table[k] = <<8 + nspans + k - 1, 8 + i>>

(* all span_counts of up to MaxSpans spans of up to MaxPoints points *)
CountVectors == UNION {[1..n -> 0..MaxPoints] : n \in 0..MaxSpans}

(* C22: for any span_counts, make_keypoint_index returns a table of        *)
(* 1 + npts rows; row 0 is (0, 0), and row k, for the k-th sample point    *)
(* overall, which belongs to span i, is (8 + nspans + k - 1, 8 + i).       *)
C22_KeypointTable ==
  /\ IndexBuilt => KeypointTableRight(PointCounts, keypoint_index)
  /\ fpc = "make_keypoint_index" =>
       \A counts \in CountVectors :
         KeypointTableRight(counts, make_keypoint_index(counts))

(* C22 witness: the table was built for two spans of different numbers of  *)
(* points, where the slice written for the first span reached into the     *)
(* rows of the second.                                                     *)
C22_Witness ==
  /\ fpc = "initial_objective"
  /\ Len(span_counts) >= 2
  /\ span_counts[1] # span_counts[2]
  /\ keypoint_index[span_counts[1] + 1][2] = 8 + 1

MaxMaskWidth == 3 * SPAN_PX_PER_STEP + 2

(* cols are the sample columns of C23 for a mask L columns wide *)
SampledAsClaimed(L, cols) ==
  LET step == SPAN_PX_PER_STEP
      s == ((L - 1) % step) \div 2
      n == Len(cols)
  IN /\ n = (L - 1) \div step + 1
     /\ n >= 1
     /\ cols[1] = s
     /\ \A k \in 1..(n - 1) : cols[k + 1] - cols[k] = step
     /\ cols[n] <= L - 1
     /\ Abs(s - (L - 1 - cols[n])) <= 1

(* C23: of a contour whose mask is L columns wide sample_spans takes the   *)
(* columns s, s + SPAN_PX_PER_STEP, ... up to L - 1, with                  *)
(* s = floor(((L - 1) mod SPAN_PX_PER_STEP) / 2): floor((L - 1) /          *)
(* SPAN_PX_PER_STEP) + 1 >= 1 of them, SPAN_PX_PER_STEP apart, the margin  *)
(* left of the first and right of the last differing by at most 1.         *)
C23_SampleColumns ==
  /\ fpc = "keypoints" =>
       \A L \in 1..MaxMaskWidth : SampledAsClaimed(L, SampleColumns(L))
  /\ fpc # "sample_spans" =>
       \A i \in 1..Len(fit_spans) :
         /\ Len(span_points[i])
              = SumOf([j \in 1..Len(fit_spans[i]) |->
                         (fit_spans[i][j].L - 1) \div SPAN_PX_PER_STEP + 1])
         /\ \A j \in 1..Len(fit_spans[i]) :
              SampledAsClaimed(fit_spans[i][j].L, SampleColumns(fit_spans[i][j].L))

(* C23 witness: sample_spans has sampled a contour of three samples whose  *)
(* left and right margins differ.                                          *)
C23_Witness ==
  /\ fpc = "keypoints"
  /\ \E i \in 1..Len(fit_spans) : \E j \in 1..Len(fit_spans[i]) :
       LET L == fit_spans[i][j].L
           cols == SampleColumns(L)
       IN /\ Len(cols) = 3
          /\ cols[1] # L - 1 - cols[3]
          /\ Len(span_points[i]) >= 3

Evaluating == fpc \in {"initial_objective", "minimize", "get_page_dims"}

(* C24: the objective evaluations of optimize_params and get_page_dims     *)
(* leave the observations (dstpoints, corners, the y and x offsets of the  *)
(* spans) and the vector each evaluation is handed as they were; the       *)
(* initial params stay, the minimizer returning a vector of its own.       *)
C24_ObservationsFixed ==
  /\ [](fpc \in {"minimize", "get_page_dims", "fitted"} => pvec_after = pvec_passed)
  /\ [][Evaluating =>
          /\ dstpoints' = dstpoints
          /\ corners' = corners
          /\ ycoords' = ycoords
          /\ xcoords' = xcoords
          /\ span_points' = span_points
          /\ keypoint_index' = keypoint_index
          /\ params' = params
          /\ fpc = "get_page_dims" => res_x' = res_x]_vars

(* C24 witness: both minimize calls have evaluated their objective, on     *)
(* vectors other than the initial ones, and the minimizer of               *)
(* optimize_params returned a vector other than the initial params.        *)
C24_Witness ==
  /\ fpc = "fitted"
  /\ evals >= 1
  /\ pvec_passed # rough_dims
  /\ res_x # params
  /\ params[1] # 0

(* C28: the keypoint index built in optimize_params has as many rows as    *)
(* there are destination points, corners[0] and then the sample points of  *)
(* the spans in span order; row k addresses, in the parameter vector, the  *)
(* x offset of the k-th destination point and the y offset of its span;    *)
(* every index of the table is a position of the parameter vector.         *)
C28_IndexMatchesPoints ==
  IndexBuilt =>
    LET nspans == Len(span_points)
        npts == SumOf(PointCounts)
    IN /\ nspans >= 1
       /\ Cardinality(DOMAIN keypoint_index) = Len(dstpoints)
       /\ Len(dstpoints) = 1 + npts
       /\ Len(params) = 8 + nspans + npts
       /\ dstpoints[1] = corners[1]
       /\ \A i \in 1..nspans : \A j \in 1..Len(span_points[i]) :
            LET k == SumUpTo(PointCounts, i - 1) + j
            IN /\ dstpoints[k + 1] = span_points[i][j]
               /\ params[keypoint_index[k][1] + 1] = dstpoints[k + 1][1] - corners[1][1]
               /\ params[keypoint_index[k][1] + 1] = xcoords[i][j]
               /\ params[keypoint_index[k][2] + 1] = ycoords[i]
       /\ \A k \in DOMAIN keypoint_index :
            /\ keypoint_index[k][1] \in 0..(8 + nspans + npts - 1)
            /\ keypoint_index[k][2] \in 0..(8 + nspans + npts - 1)

(* C28 witness: the index was built for two spans, the second of several   *)
(* contours.                                                               *)
C28_Witness ==
  /\ fpc = "minimize"
  /\ Len(span_points) = 2
  /\ Len(fit_spans[2]) >= 2
  /\ Len(dstpoints) >= 5


(***************************************************************************)
(* retrynize (src/utils.py): one call of the wrapper it returns, around a  *)
(* func whose successive invocations end as rt_outcomes tells: by          *)
(* returning, by raising an Exception, or by raising a BaseException that  *)
(* is no Exception (KeyboardInterrupt, SystemExit, CancelledError).        *)
(***************************************************************************)
Outcomes == {"return", "Exception", "BaseException"}

FailedMessage == "Failed after 5 retries"

(* an except clause that catches whatever is raised *)
mut_Caught_whatever_raised(outcome) == outcome # "return"

(* except Exception as e: *)
Caught(outcome) == outcome = "Exception"

RtInit ==
  /\ rt_async \in BOOLEAN
  /\ rt_outcomes \in [1..(RETRIES + 1) -> Outcomes]
  /\ rt_i = 0
  /\ rt_invocations = 0
  /\ rt_printed = <<>>
  /\ rt_result = [kind |-> "none", by |-> 0, what |-> ""]
  /\ rtpc = "loop"

(* What the try statement of one iteration does once the invocation has    *)
(* ended: return its result, print and go on, or let the exception out.    *)
RtAfterInvocation(o) ==
  IF o = "return"
  THEN /\ rt_result' = [kind |-> "returned", by |-> rt_invocations', what |-> ""]
       /\ rtpc' = "done"
       /\ UNCHANGED <<rt_i, rt_printed>>
  ELSE IF Caught(o)
  THEN /\ rt_printed' = Append(rt_printed, rt_i + 1)
       /\ rt_i' = rt_i + 1
       /\ rtpc' = "loop"
       /\ UNCHANGED rt_result
  ELSE /\ rt_result' = [kind |-> "raised", by |-> rt_invocations', what |-> o]
       /\ rtpc' = "done"
       /\ UNCHANGED <<rt_i, rt_printed>>

(* sync_wrapper, one iteration: the try statement around `return func(...)` *)
RtCall ==
  /\ UNCHANGED otherThanRt
  /\ rtpc = "loop"
  /\ ~rt_async
  /\ rt_i < RETRIES
  /\ rt_invocations' = rt_invocations + 1
  /\ RtAfterInvocation(rt_outcomes[rt_invocations + 1])
  /\ UNCHANGED <<rt_async, rt_outcomes>>

(* async_wrapper, one iteration up to the await: func is invoked and the   *)
(* wrapper waits for the coroutine.                                        *)
RtAwait ==
  /\ UNCHANGED otherThanRt
  /\ rtpc = "loop"
  /\ rt_async
  /\ rt_i < RETRIES
  /\ rt_invocations' = rt_invocations + 1
  /\ rtpc' = "await"
  /\ UNCHANGED <<rt_async, rt_outcomes, rt_i, rt_printed, rt_result>>

(* async_wrapper, from the await on: the coroutine has ended. *)
RtResume ==
  /\ UNCHANGED otherThanRt
  /\ rtpc = "await"
  /\ UNCHANGED rt_invocations
  /\ RtAfterInvocation(rt_outcomes[rt_invocations])
  /\ UNCHANGED <<rt_async, rt_outcomes>>

(* after the loop: raise Exception("Failed after 5 retries") *)
RtExhausted ==
  /\ UNCHANGED otherThanRt
  /\ rtpc = "loop"
  /\ rt_i >= RETRIES
  /\ rt_result' = [kind |-> "raised", by |-> 0, what |-> FailedMessage]
  /\ rtpc' = "done"
  /\ UNCHANGED <<rt_async, rt_outcomes, rt_i, rt_invocations, rt_printed>>

RtNext == RtCall \/ RtAwait \/ RtResume \/ RtExhausted

InitRetry ==
  RtInit /\ AsmIdle /\ PixIdle /\ DwIdle /\ GcIdle /\ RmIdle /\ ParIdle /\ TwoIdle
  /\ FitIdle /\ PeIdle

SpecRetry == InitRetry /\ [][RtNext]_vars

(* C29: the wrapped function is invoked at most 5 times per call of the    *)
(* wrapper, sync or async; the wrapper returns the result of the first     *)
(* invocation that does not raise, with no invocation after it; and it     *)
(* raises 'Failed after 5 retries' if and only if all five invocations     *)
(* raised an Exception.                                                    *)
C29_AtMostFiveInvocations ==
  /\ rt_invocations <= 5
  /\ rt_result.kind = "returned" =>
       /\ rtpc = "done"
       /\ rt_result.by = rt_invocations
       /\ rt_outcomes[rt_result.by] = "return"
       /\ \A k \in 1..(rt_result.by - 1) : rt_outcomes[k] = "Exception"
  /\ rtpc = "done" =>
       ((rt_result.kind = "raised" /\ rt_result.what = FailedMessage)
          <=> \A k \in 1..5 : rt_outcomes[k] = "Exception")

(* C29 witnesses: an async wrapper gave up after five invocations that all *)
(* raised an Exception.                                                    *)
C29_Witness ==
  /\ rtpc = "done"
  /\ rt_async
  /\ rt_result.what = FailedMessage
  /\ rt_invocations = 5
  /\ rt_printed = <<1, 2, 3, 4, 5>>

(* A sync wrapper returned the result of the third invocation, the first   *)
(* that did not raise, though later ones would have raised.                *)
RtReturnedThirdResult ==
  /\ rtpc = "done"
  /\ ~rt_async
  /\ rt_result.kind = "returned"
  /\ rt_result.by = 3
  /\ rt_outcomes[4] = "Exception"


(***************************************************************************)
(* parse_events (src/pack_to_json.py).  An event is its kind and its       *)
(* content; the k-th event of a list has content k, which tells the events *)
(* of a kind apart, and stands for each of the fields the event class has. *)
(***************************************************************************)
EventKinds ==
  {"section_heading", "group_heading", "plain_text", "start_word",
   "meaning_line", "check_problem", "start_review_test"}

EventLists ==
  UNION {{[k \in 1..n |-> [kind |-> kinds[k], content |-> k]] : kinds \in [1..n -> EventKinds]}
           : n \in 0..MaxEvents}

None == [kind |-> "None"]

(* Word(word=w, importance_level=il, phonetic=p, meanings=[]) for the      *)
(* StartWord event e                                                       *)
Word(e) ==
  [kind |-> "Word", word |-> e.content, importance_level |-> e.content,
   phonetic |-> e.content, meanings |-> <<>>]

Group(lead, title) ==
  [kind |-> "Group", lead |-> lead, words |-> <<>>, check_problems |-> <<>>,
   title |-> title]

(* the loop of parse_to_sections over the first n events *)
RECURSIVE SectionsLoop(_, _)
SectionsLoop(evts, n) ==
  IF n = 0 THEN [sections |-> <<>>, sec_buf |-> <<>>]
  ELSE LET st == SectionsLoop(evts, n - 1)
           e == evts[n]
           cut == IF e.kind = "section_heading"
                  THEN [sections |-> Append(st.sections, st.sec_buf), sec_buf |-> <<>>]
                  ELSE st
       IN [cut EXCEPT !.sec_buf = Append(@, e)]

(* parse_to_sections(events): the (heading, body) pairs *)
parse_to_sections(evts) ==
  LET st == SectionsLoop(evts, Len(evts))
      sections == Tail(Append(st.sections, st.sec_buf))    \* sections.pop(0)
  IN [i \in 1..Len(sections) |->
        [heading |-> Head(sections[i]), body |-> Tail(sections[i])]]

(* group_buf.words.append(word_buf) *)
WithWord(group_buf, word_buf) ==
  [group_buf EXCEPT !.words = Append(@, word_buf)]

(* The loop of parse_to_groups over the first n events: its locals, and    *)
(* the exception that ended it.  group_buf is None until the first         *)
(* GroupHeading, and None has no attribute words or check_problems.        *)
RECURSIVE GroupsLoop(_, _)
GroupsLoop(evts, n) ==
  IF n = 0
  THEN [groups |-> <<>>, group_buf |-> None, next_texts_buf |-> <<>>,
        word_buf |-> None, err |-> "none"]
  ELSE LET st == GroupsLoop(evts, n - 1)
           e == evts[n]
       IN IF st.err # "none" THEN st
          ELSE CASE e.kind = "plain_text" ->
                      [st EXCEPT !.next_texts_buf = Append(@, e.content)]
                 [] e.kind = "group_heading" ->
                      LET closed ==
                            IF st.group_buf # None
                            THEN [st EXCEPT
                                    !.groups = Append(@, IF st.word_buf # None
                                                         THEN WithWord(st.group_buf, st.word_buf)
                                                         ELSE st.group_buf),
                                    !.word_buf = None]
                            ELSE st
                      IN [closed EXCEPT !.group_buf = Group(st.next_texts_buf, e.content),
                                        !.next_texts_buf = <<>>]
                 [] e.kind = "start_word" ->
                      IF st.word_buf # None
                      THEN IF st.group_buf = None
                           THEN [st EXCEPT !.err = "AttributeError"]
                           ELSE [st EXCEPT !.group_buf = WithWord(@, st.word_buf),
                                           !.word_buf = Word(e)]
                      ELSE [st EXCEPT !.word_buf = Word(e)]
                 [] e.kind = "meaning_line" ->
                      IF st.word_buf = None THEN [st EXCEPT !.err = "AssertionError"]
                      ELSE [st EXCEPT !.word_buf.meanings = Append(@, e.content)]
                 [] e.kind = "check_problem" ->
                      IF st.group_buf = None THEN [st EXCEPT !.err = "AttributeError"]
                      ELSE [st EXCEPT !.group_buf.check_problems = Append(@, e.content)]
                 [] OTHER -> st

(* What follows the loop in both parsers: the word in word_buf goes to     *)
(* group_buf, group_buf goes to groups.                                    *)
GroupsAfterLoop(st) ==
  IF st.err # "none" THEN [err |-> st.err, groups |-> <<>>]
  ELSE IF st.word_buf # None /\ st.group_buf = None
  THEN [err |-> "AttributeError", groups |-> <<>>]
  ELSE [err |-> "none",
        groups |-> Append(st.groups, IF st.word_buf # None
                                     THEN WithWord(st.group_buf, st.word_buf)
                                     ELSE st.group_buf)]

(* parse_to_groups(events): the groups, or the exception raised *)
parse_to_groups(evts) == GroupsAfterLoop(GroupsLoop(evts, Len(evts)))

(* the loop of parse_to_groups_without_group_heading over the first n      *)
(* events; a group's title is the pair of the section title and cnt        *)
RECURSIVE PlainGroupsLoop(_, _, _)
PlainGroupsLoop(evts, title, n) ==
  IF n = 0
  THEN [cnt |-> 0, groups |-> <<>>, group_buf |-> Group(<<>>, <<title, 0>>),
        word_buf |-> None, err |-> "none"]
  ELSE LET st == PlainGroupsLoop(evts, title, n - 1)
           e == evts[n]
       IN IF st.err # "none" THEN st
          ELSE CASE e.kind = "plain_text" ->
                      LET opened ==
                            IF Len(st.group_buf.words) > 0
                            THEN [st EXCEPT
                                    !.groups = Append(@, IF st.word_buf # None
                                                         THEN WithWord(st.group_buf, st.word_buf)
                                                         ELSE st.group_buf),
                                    !.word_buf = None,
                                    !.cnt = @ + 1,
                                    !.group_buf = Group(<<>>, <<title, st.cnt + 1>>)]
                            ELSE st
                      IN [opened EXCEPT !.group_buf.lead = Append(@, e.content)]
                 [] e.kind = "group_heading" -> [st EXCEPT !.err = "AssertionError"]
                 [] e.kind = "start_word" ->
                      IF st.word_buf # None
                      THEN [st EXCEPT !.group_buf = WithWord(@, st.word_buf),
                                      !.word_buf = Word(e)]
                      ELSE [st EXCEPT !.word_buf = Word(e)]
                 [] e.kind = "meaning_line" ->
                      IF st.word_buf = None THEN [st EXCEPT !.err = "AssertionError"]
                      ELSE [st EXCEPT !.word_buf.meanings = Append(@, e.content)]
                 [] e.kind = "check_problem" ->
                      [st EXCEPT !.group_buf.check_problems = Append(@, e.content)]
                 [] OTHER -> st

(* parse_to_groups_without_group_heading(events, title) *)
parse_to_groups_without_group_heading(evts, title) ==
  GroupsAfterLoop(PlainGroupsLoop(evts, title, Len(evts)))

(* parse_events(events): the (heading, groups) pairs, or the exception the *)
(* first failing section raised                                            *)
parse_events(evts) ==
  LET sections == parse_to_sections(evts)
      per == [i \in 1..Len(sections) |->
                LET body == sections[i].body
                    cc == Cardinality({k \in 1..Len(body) : body[k].kind = "group_heading"})
                IN IF cc # 0 THEN parse_to_groups(body)
                   ELSE parse_to_groups_without_group_heading(body, sections[i].heading.content)]
      failed == {i \in 1..Len(sections) : per[i].err # "none"}
  IN IF failed # {}
     THEN [err |-> per[CHOOSE i \in failed : \A j \in failed : i <= j].err, res |-> <<>>]
     ELSE [err |-> "none",
           res |-> [i \in 1..Len(sections) |->
                      [heading |-> sections[i].heading, groups |-> per[i].groups]]]

PeInit ==
  /\ events \in EventLists
  /\ parsed = [err |-> "none", res |-> <<>>]
  /\ pepc = "parse_events"

PeParseEvents ==
  /\ UNCHANGED otherThanPe
  /\ pepc = "parse_events"
  /\ parsed' = parse_events(events)
  /\ pepc' = "parsed"
  /\ UNCHANGED events

PeNext == PeParseEvents

InitParse ==
  PeInit /\ AsmIdle /\ PixIdle /\ DwIdle /\ GcIdle /\ RmIdle /\ ParIdle /\ TwoIdle
  /\ FitIdle /\ RtIdle

SpecParse == InitParse /\ [][PeNext]_vars

(* every MeaningLine comes right after a StartWord or a MeaningLine *)
MeaningLinesFollowWords(evts) ==
  \A k \in 1..Len(evts) :
    evts[k].kind = "meaning_line" =>
      k > 1 /\ evts[k - 1].kind \in {"start_word", "meaning_line"}

(* the contents of the MeaningLines from position k on, up to the first    *)
(* event of another kind                                                   *)
RECURSIVE MeaningRun(_, _)
MeaningRun(evts, k) ==
  IF k > Len(evts) \/ evts[k].kind # "meaning_line" THEN <<>>
  ELSE <<evts[k].content>> \o MeaningRun(evts, k + 1)

(* the positions, in order, of the StartWords after the first              *)
(* SectionHeading                                                          *)
RECURSIVE WordPositions(_, _)
WordPositions(evts, n) ==
  IF n = 0 THEN <<>>
  ELSE IF /\ evts[n].kind = "start_word"
          /\ \E j \in 1..(n - 1) : evts[j].kind = "section_heading"
       THEN Append(WordPositions(evts, n - 1), n)
       ELSE WordPositions(evts, n - 1)

(* the Words the claim expects, in order *)
ExpectedWords(evts) ==
  LET at == WordPositions(evts, Len(evts))
  IN [i \in 1..Len(at) |-> [Word(evts[at[i]]) EXCEPT !.meanings = MeaningRun(evts, at[i] + 1)]]

(* the Words of a result, read in section, group and word order *)
WordsOf(res) ==
  hstack([i \in 1..Len(res) |->
            hstack([g \in 1..Len(res[i].groups) |-> res[i].groups[g].words])])

(* C30: for an event list in which every MeaningLine comes right after a   *)
(* StartWord or another MeaningLine, parse_events completes without error, *)
(* and the Words of the groups it returns, read in section, group and word *)
(* order, are the StartWords after the first SectionHeading, one for one   *)
(* and in order, each with the MeaningLines that followed its StartWord.   *)
C30_WordsConserved ==
  pepc = "parsed" /\ MeaningLinesFollowWords(events) =>
    /\ parsed.err = "none"
    /\ WordsOf(parsed.res) = ExpectedWords(events)

(* section i of the events has a GroupHeading and, before its first        *)
(* GroupHeading, a CheckProblem or a second StartWord                      *)
EarlyWordOrProblem(body) ==
  \E h \in 1..Len(body) :
    /\ body[h].kind = "group_heading"
    /\ \A j \in 1..(h - 1) : body[j].kind # "group_heading"
    /\ \/ \E j \in 1..(h - 1) : body[j].kind = "check_problem"
       \/ \E j, k \in 1..(h - 1) :
            j < k /\ body[j].kind = "start_word" /\ body[k].kind = "start_word"

(* What holds of parse_events on such lists: it raises, and then           *)
(* AttributeError, exactly when a section with a GroupHeading has a        *)
(* CheckProblem or a second StartWord before its first GroupHeading; when  *)
(* it returns, the words are conserved.                                    *)
PeConservedUnlessEarly ==
  pepc = "parsed" /\ MeaningLinesFollowWords(events) =>
    LET sections == parse_to_sections(events)
        early == \E i \in 1..Len(sections) : EarlyWordOrProblem(sections[i].body)
    IN /\ parsed.err \in {"none", "AttributeError"}
       /\ parsed.err = "AttributeError" <=> early
       /\ parsed.err = "none" => WordsOf(parsed.res) = ExpectedWords(events)

(* parse_events returned for a list with two sections, one with and one    *)
(* without a GroupHeading, both holding a word with a meaning.             *)
PeReturnedBothKinds ==
  /\ pepc = "parsed"
  /\ parsed.err = "none"
  /\ Len(parsed.res) = 2
  /\ Len(WordsOf(parsed.res)) >= 1

====
